---- MODULE Spec2Model ----
(***************************************************************************)
(* Session-scoped concurrent query execution engine of chatbot-sql:        *)
(* the execution-context propagator and the cancellation registry          *)
(* (infrastructure/execution_context.py), the query processor and the      *)
(* agent adapter (infrastructure/adapters.py), the thread-dispatching      *)
(* agent (infrastructure/lazy_agent.py), the session store                 *)
(* (infrastructure/services.py, domain/entities.py), the use cases         *)
(* (application/use_cases.py, application/export_use_case.py) and the      *)
(* endpoints that call them (presentation/controllers.py).                 *)
(*                                                                         *)
(* Python values are modelled as follows.  None is the string "None".      *)
(* A str (query, reply, exception message) is a string, character by       *)
(* character; its characters are those of Latin-1, and an emoji of the     *)
(* program's texts is written by its name between colons.  An Optional     *)
(* value is a sequence of length 0 or 1.  A list is a sequence.  A dict is *)
(* a function whose DOMAIN is the set of its keys.                         *)
(***************************************************************************)
EXTENDS Integers, Sequences, FiniteSets, TLC

None == "None"

\* ---------------------------------------------------------------- inputs
\* The turns that can be in flight together; each is one asyncio task.
Turns == {"A", "B"}

\* Request ids a client sends in X-Request-ID (and to the cancel endpoint).
ClientRequestIds == {"r1"}

\* uuid.uuid4() of QueryProcessorService.process_query for a turn that
\* carries no request id: fresh, and unknown to every client.
Uuid4(t) == IF t = "A" THEN "uA" ELSE "uB"

RequestIds == ClientRequestIds \cup {Uuid4(t) : t \in Turns}

\* Session ids: what uuid4 yields for the sessions the store creates, in the
\* order in which it yields them.
IdOrder == <<"s1", "s2", "s3">>
SessionIds == {IdOrder[i] : i \in DOMAIN IdOrder}

\* How the agent collaborator given to QueryProcessorService is built:
\*  "coro": AsyncAgentAdapter around an agent whose process_query is a
\*          coroutine function (LlamaIndexChatAgent): runs in the task;
\*  "lazy": AsyncAgentAdapter around LazyLlamaIndexChatAgent (container.py):
\*          asyncio.to_thread, then the agent's own executor thread;
\*  "sync": LazyLlamaIndexChatAgent given directly (process_query is not a
\*          coroutine function): the else branch of process_query.
AgentKinds == {"coro", "lazy", "sync"}

\* Threads: the event loop thread, the pooled threads of asyncio.to_thread
\* (the loop's default executor, reused), and the thread of the
\* ThreadPoolExecutor(max_workers=1) that LazyLlamaIndexChatAgent creates
\* per call (never reused).
LoopThread == "loop"
PoolThreads == {"w1", "w2"}
ExecThread(t) == IF t = "A" THEN "eA" ELSE "eB"
Threads == {LoopThread} \cup PoolThreads \cup {ExecThread(t) : t \in Turns}

\* ------------------------------------------------------------------ text
\* The characters c with c.isspace(): space, \t, \n, \v, \f, \r, the
\* separators FS, GS, RS and US, NEL and the no-break space.  str.strip()
\* drops them and \s of a regular expression matches them.
Whitespace ==
  {" ", "\t", "\n", "", "\f", "\r", "", "", "", "", "", " "}

\* str.strip(): drop leading and trailing whitespace.
RECURSIVE LStrip(_)
LStrip(str) ==
  IF Len(str) > 0 /\ SubSeq(str, 1, 1) \in Whitespace
  THEN LStrip(SubSeq(str, 2, Len(str))) ELSE str

RECURSIVE RStrip(_)
RStrip(str) ==
  IF Len(str) > 0 /\ SubSeq(str, Len(str), Len(str)) \in Whitespace
  THEN RStrip(SubSeq(str, 1, Len(str) - 1)) ELSE str

Strip(str) == RStrip(LStrip(str))

\* The characters with a lower-case form of their own, and those forms.
UpperCase == "ABCDEFGHIJKLMNOPQRSTUVWXYZÀÁÂÃÄÅÆÇÈÉÊËÌÍÎÏÐÑÒÓÔÕÖØÙÚÛÜÝÞ"
LowerCase == "abcdefghijklmnopqrstuvwxyzàáâãäåæçèéêëìíîïðñòóôõöøùúûüýþ"

\* c.lower() of every character that has a lower-case form of its own
LowerOf ==
  [ c \in {SubSeq(UpperCase, i, i) : i \in 1..Len(UpperCase)} |->
      LET i == CHOOSE i \in 1..Len(UpperCase) : SubSeq(UpperCase, i, i) = c
      IN  SubSeq(LowerCase, i, i) ]

\* str.lower() of a string, character by character (the string is halved
\* until one character is left)
RECURSIVE Lower(_)
Lower(str) ==
  IF Len(str) = 0 THEN ""
  ELSE IF Len(str) = 1
  THEN (IF str \in DOMAIN LowerOf THEN LowerOf[str] ELSE str)
  ELSE LET half == Len(str) \div 2
       IN  Lower(SubSeq(str, 1, half)) \o Lower(SubSeq(str, half + 1, Len(str)))

\* `sub in str` of two strings
Contains(str, sub) ==
  \E p \in 1..(Len(str) - Len(sub) + 1) : SubSeq(str, p, p + Len(sub) - 1) = sub

\* str.startswith(prefix)
StartsWith(str, prefix) ==
  Len(prefix) <= Len(str) /\ SubSeq(str, 1, Len(prefix)) = prefix

\* str[n:]
From(str, n) == SubSeq(str, n + 1, Len(str))

\* sep.join(list)
RECURSIVE Join(_, _)
Join(sep, list) ==
  IF list = <<>> THEN ""
  ELSE IF Len(list) = 1 THEN list[1]
  ELSE list[1] \o sep \o Join(sep, Tail(list))

Min(S) == CHOOSE x \in S : \A y \in S : x <= y

\* The queries a request can carry.
Queries == { "", " \t", "q" }

\* The session_id field of a request: "" when the client sends none, an id
\* the store never handed out, or the id of a session it created.
ForeignSessionId == "zz"
SessionIdInputs(heap) == {"", ForeignSessionId} \cup DOMAIN heap

\* ------------------------------------------------ execution_context.py
\* The value of (_session_var, _request_id_var) in one context, and of
\* (_thread_local.session, _thread_local.request_id) in one thread.
Rec(s, r) == [session |-> s, request_id |-> r]

\* ContextVar default / thread-local attributes absent.
Unbound == Rec(None, None)

Records == { Rec(s, r) : s \in SessionIds \cup {None}, r \in RequestIds \cup {None} }

\* (variant that prefers the thread-local record)
get_current_tl_first(cv, tl) == IF tl.session # None THEN tl ELSE cv

\* get_current() in a context whose ContextVars hold cv, on a thread whose
\* thread-local holds tl.
get_current(cv, tl) == IF cv.session # None THEN cv ELSE tl

\* set_for_context(session, request_id): the new ContextVar value and the
\* tokens (each token remembers the value it replaced).
set_for_context(cv, s, r) == [cv |-> Rec(s, r), tokens |-> cv]

\* reset_context(tokens)
reset_context(cv, tokens) == tokens

\* set_for_thread(session, request_id) on the calling thread
set_for_thread(s, r) == Rec(s, r)

\* (variant that leaves the attributes in place)
clear_for_thread_keep(tl) == tl

\* clear_for_thread() on the calling thread
clear_for_thread(tl) == Unbound

\* A registry entry: {'task': ..., 'event': threading.Event()}
Entry(task, event) == [task |-> task, event |-> event]

\* dict update / delete
DictPut(d, k, v) == [x \in DOMAIN d \cup {k} |-> IF x = k THEN v ELSE d[x]]
DictDel(d, k) == [x \in DOMAIN d \ {k} |-> d[x]]

\* (variant that replaces the entry it finds, latch included)
register_task_fresh(reg, r, task) == DictPut(reg, r, Entry(task, FALSE))

\* register_task(request_id, task)
register_task(reg, r, task) ==
  LET entry == IF r \in DOMAIN reg THEN reg[r] ELSE Entry(None, FALSE)
  IN  DictPut(reg, r, Entry(task, entry.event))

\* (variant that leaves the entry in the registry)
unregister_task_skip(reg, r) == reg

\* unregister_task(request_id)
unregister_task(reg, r) == IF r \in DOMAIN reg THEN DictDel(reg, r) ELSE reg

\* (variant that flips the latch instead of setting it)
set_cancel_toggle(reg, r, cancelRaises) ==
  LET entry == IF r \in DOMAIN reg THEN reg[r] ELSE Entry(None, FALSE)
  IN  [registry  |-> DictPut(reg, r, Entry(entry.task, ~entry.event)),
       cancelled |-> IF cancelRaises THEN None ELSE entry.task,
       raised    |-> FALSE]

\* set_cancel(request_id).  cancelRaises: whether entry['task'].cancel()
\* raises; the result says which registry follows, which task was asked to
\* cancel, and whether the call raised to its caller.
set_cancel(reg, r, cancelRaises) ==
  LET entry == IF r \in DOMAIN reg THEN reg[r] ELSE Entry(None, FALSE)
  IN  [registry  |-> DictPut(reg, r, Entry(entry.task, TRUE)),
       cancelled |-> IF cancelRaises THEN None ELSE entry.task,
       raised    |-> FALSE]

\* get_cancel_event_for_request(request_id): the registry afterwards (the
\* entry of an unknown id is made with its latch unset)
get_cancel_event_for_request(reg, r) ==
  IF r \in DOMAIN reg THEN reg ELSE DictPut(reg, r, Entry(None, FALSE))

\* is_cancelled_current() in context cv on a thread whose thread-local is tl
is_cancelled_current(reg, cv, tl) ==
  LET reqid == get_current(cv, tl).request_id
  IN  IF reqid = None THEN FALSE
      ELSE IF reqid \notin DOMAIN reg THEN FALSE
      ELSE reg[reqid].event

\* ------------------------------------------------------- agent outcomes
\* What a call yields: a text it returns or an exception with its message;
\* "pending" while it has not finished.  For agent.run the kind also says
\* how _extract_response_text reads the response:
\*   "blocks":  response.response.blocks holds texts, joined by ' ';
\*   "content": response.response has no blocks and its content, which is
\*              not empty, is the text;
\*   "return":  neither, str(response) is the text;
\*   "none":    the response is None.
Outcome(kind, text) == [kind |-> kind, text |-> text]
Pending == Outcome("pending", "")

\* The tools of the agent that export the rows of a query: what their texts
\* call the file, and the kind and the extension that
\* ExporterFactory.build_filename gets.  The agent of adapters.py has the
\* first of them only.
ToolNames == {"pdf", "excel", "csv"}
ToolLabel(name) ==
  CASE name = "pdf" -> "PDF" [] name = "excel" -> "Excel" [] name = "csv" -> "CSV"
ToolExtension(name) ==
  CASE name = "pdf" -> "pdf" [] name = "excel" -> "xlsx" [] name = "csv" -> "csv"

\* download_url of a tool: http://127.0.0.1:8000/ and the path of the file,
\* whose name build_filename makes of the kind, the time and six hex digits.
ExportUrl(name) ==
  "http://127.0.0.1:8000/downloads/exports/documento" \o ToolLabel(name)
    \o "_20251010_160255_a1b2c3." \o ToolExtension(name)

\* A link to a file that the server offers for download.
ExportLink == ExportUrl("pdf")

\* The responses of the agent to a query.
AgentResponses ==
  { Outcome("return", " Assistant : ok\n"),
    Outcome("blocks", "veja " \o ExportLink),
    Outcome("content", "veja " \o ExportLink) }

\* Messages of the exceptions the agent raises.
ErrorMessages ==
  { "boom",
    "429",
    "429 Quota retry in 45",
    "429 quota retry in 429",
    "4290 QuOtA Please retry in 45.5s.",
    "429 RESOURCE_EXHAUSTED Retry in 45",
    "429 Too Many Requests MAX_TOKENS",
    "Response was terminated early" }

\* str(e) of concurrent.futures.TimeoutError raised by future.result(timeout)
TimeoutMessage == ""

\* An exception raised by the session store.
StoreErrorMessage == "store unavailable"
StoreError == Outcome("raise", StoreErrorMessage)

\* The sentinel a tool returns at a checkpoint that observes cancellation.
CancelledSentinel == "Operação cancelada pelo usuário"

\* The tool's answer when the export file was written (two rows fetched).
ToolLink(name) ==
  ":white_check_mark: " \o ToolLabel(name)
    \o " gerado com sucesso! 2 registros processados.\n\n"
    \o ":inbox_tray: [Clique aqui para baixar o arquivo](" \o ExportUrl(name) \o ")"

\* The answer of a tool whose outer except clause caught the exception e:
\* f"Erro ao gerar PDF: {str(e)}"
ToolError(name, e) == "Erro ao gerar " \o ToolLabel(name) \o ": " \o e

\* str(e) of the AttributeError that the export raises: the tool of
\* adapters.py calls DataPdfExporter.export_query_data (the class has
\* export, not export_query_data); DataPdfExporter.export of the tool of
\* lazy_agent.py reaches .encode of a bytearray.
NoExportQueryData == "type object 'DataPdfExporter' has no attribute 'export_query_data'"
NoEncode == "'bytearray' object has no attribute 'encode'"

\* conn.execute(text(sql_query)) of a tool: it returns, or it raises
\* ProgrammingError (a table or column that does not exist); str(e) of the
\* error, and the tables that inspector.get_table_names() lists.
SqlFaults == {"none", "ProgrammingError"}
DbErrorMessage == "Invalid object name"
DbTables == <<"T">>

\* The answer of a tool of lazy_agent.py to a ProgrammingError pe.
SqlError(pe, tables) ==
  "Erro ao executar a consulta SQL: parece que a tabela ou coluna não existe. "
    \o "Detalhe do erro: " \o pe \o ". Tabelas disponíveis: "
    \o (IF tables = <<>> THEN "desconhecidas" ELSE Join(", ", tables)) \o "."

\* lazy_agent.py: the text returned when the agent's response is None.
NoResponseText ==
  "Desculpe, não consegui processar a resposta adequadamente. Por favor, tente reformular sua pergunta."

\* --------------------------------------------------- domain/entities.py
Message(role, content) == [role |-> role, content |-> content]

\* QueryResult: the query text, the number of rows, the column names and
\* the time stamp (query_type and result_data play no part).
QueryResult(query, row_count, columns, timestamp) ==
  [query |-> query, row_count |-> row_count, columns |-> columns,
   timestamp |-> timestamp]

\* Session(session_id) constructed at time t; the Optional active_dataset is
\* a sequence of at most one element.  These five are all the attributes of
\* a Session: it has no stats, no title, no update_stats, and its properties
\* have no setters.
Session(t) ==
  [created_at |-> t, last_activity |-> t, messages |-> <<>>,
   query_results |-> <<>>, active_dataset |-> <<>>]

\* The attributes and methods that a Session has.
SessionAttributes ==
  {"session_id", "created_at", "last_activity", "message_history",
   "active_dataset", "add_message", "add_query_result", "is_expired",
   "get_context_summary"}

\* The exception that reading session.<name> raises, None when there is
\* the attribute.
getattr_raises(name) ==
  IF name \in SessionAttributes THEN None ELSE "AttributeError"

\* (variant that puts the message in front of the history)
add_message_front(session, message, t) ==
  [session EXCEPT !.messages = <<message>> \o @, !.last_activity = t]

\* Session.add_message at time t
add_message(session, message, t) ==
  [session EXCEPT !.messages = Append(@, message), !.last_activity = t]

\* len(self._query_results) > 5
MaxRecentResults == 5

\* (variant that replaces active_dataset whatever the row count)
add_query_result_any(session, query_result, t) ==
  LET appended == Append(session.query_results, query_result)
  IN  [session EXCEPT
         !.query_results = IF Len(appended) > MaxRecentResults
                           THEN Tail(appended) ELSE appended,
         !.active_dataset = <<query_result>>,
         !.last_activity = t]

\* (variant that evicts once the list holds 5 results)
add_query_result_early(session, query_result, t) ==
  LET appended == Append(session.query_results, query_result)
  IN  [session EXCEPT
         !.query_results = IF Len(appended) >= MaxRecentResults
                           THEN Tail(appended) ELSE appended,
         !.active_dataset = IF query_result.row_count > 0
                            THEN <<query_result>> ELSE @,
         !.last_activity = t]

\* Session.add_query_result at time t
add_query_result(session, query_result, t) ==
  LET appended == Append(session.query_results, query_result)
  IN  [session EXCEPT
         !.query_results = IF Len(appended) > MaxRecentResults
                           THEN Tail(appended) ELSE appended,
         !.active_dataset = IF query_result.row_count > 0
                            THEN <<query_result>> ELSE @,
         !.last_activity = t]

\* (variant that expires a session at the timeout itself)
is_expired_ge(session, timeout, t) == t - session.last_activity >= timeout

\* Session.is_expired(timeout_seconds) at time t
is_expired(session, timeout, t) == t - session.last_activity > timeout

\* the last n elements of a sequence: seq[-n:]
LastN(seq, n) == IF Len(seq) <= n THEN seq ELSE SubSeq(seq, Len(seq) - n + 1, Len(seq))

\* the first n elements of a sequence: seq[:n]
FirstN(seq, n) == IF Len(seq) <= n THEN seq ELSE SubSeq(seq, 1, n)

\* str(n) of a row count
ToStr(n) == ToString(n)

\* get_context_summary: self._message_history[-6:], msg.content[:200],
\* self._active_dataset.columns[:5]
SummaryMessages == 6
PreviewLength == 200
PreviewColumns == 5

\* one line of the summary: the role's mark and the preview of the content
SummaryLine(msg) ==
  (IF msg.role = "user" THEN ":man_raising_hand:" ELSE ":robot:") \o " "
    \o (IF Len(msg.content) > PreviewLength
        THEN FirstN(msg.content, PreviewLength) \o "..."
        ELSE msg.content)

SummaryLines(msgs) == [i \in DOMAIN msgs |-> SummaryLine(msgs[i])]

\* the line of the summary for the active dataset
DatasetLine(dataset) ==
  "\n:bar_chart: DATASET ATIVO: " \o ToStr(dataset.row_count) \o " registros, "
    \o "colunas: " \o Join(", ", FirstN(dataset.columns, PreviewColumns))
    \o (IF Len(dataset.columns) > PreviewColumns THEN "..." ELSE "")

\* Session.get_context_summary()
get_context_summary(session) ==
  IF session.messages = <<>> THEN ""
  ELSE Join("\n",
            SummaryLines(LastN(session.messages, SummaryMessages))
              \o (IF session.active_dataset # <<>>
                  THEN << DatasetLine(session.active_dataset[1]) >> ELSE <<>>))

\* ---------------------------------- adapters.py: QueryContextEnhancer
\* CONTEXTUAL_KEYWORDS
ContextualKeywords ==
  { "dessas", "desses", "desta", "deste", "disso", "deles", "delas",
    "anterior", "últimos", "últimas", "mesmo", "mesma", "mesmos", "mesmas",
    "esses", "essas", "aqueles", "aquelas", "os dados", "as informações",
    "resultado", "resultados", "consulta anterior", "query anterior" }

\* QueryContextEnhancer.needs_context(query)
needs_context(query) ==
  LET query_lower == Lower(query)
  IN  \E keyword \in ContextualKeywords : Contains(query_lower, keyword)

\* the text that enhance_query puts around the query
ContextBlock(query, session) ==
  "\nCONTEXTO DA CONVERSA:\n" \o get_context_summary(session)
    \o "\n\nÚLTIMA CONSULTA EXECUTADA:\n" \o session.active_dataset[1].query
    \o "\n\nPERGUNTA ATUAL DO USUÁRIO:\n" \o query
    \o "\n\nINSTRUÇÕES ESPECIAIS:\n"
    \o "- Use os dados da consulta anterior como base para responder a pergunta atual\n"
    \o "- Se o usuário se refere a \"dessas\", \"desses\", etc., ele está falando dos dados da última consulta\n"
    \o "- Considere o contexto completo da conversa ao formular a resposta SQL\n"
    \o "- Se possível, reutilize ou adapte a consulta anterior em vez de criar uma nova do zero\n"

\* (variant that adds the context whenever the session has a dataset)
enhance_query_always(query, session) ==
  [session |-> session,
   text |-> IF session.active_dataset = <<>> THEN query
            ELSE ContextBlock(query, session)]

\* QueryContextEnhancer.enhance_query(query, session): the text it returns
\* and the session as the call leaves it.
enhance_query(query, session) ==
  [session |-> session,
   text |-> IF ~needs_context(query) \/ session.active_dataset = <<>> THEN query
            ELSE ContextBlock(query, session)]

\* -------------------- adapters.py, lazy_agent.py: the agent's response
\* _clean_response: the prefixes it looks for, in its order
CleanPrefixes ==
  << "assistant:", "Assistant:", "assistant :", "Assistant :", "Assistente:",
     "assistente:" >>

\* _clean_response(text): strip, then cut the first prefix that the text
\* starts with, letters compared in lower case, and strip again
clean_response(text) ==
  LET stripped == Strip(text)
      found == { i \in DOMAIN CleanPrefixes :
                   StartsWith(Lower(stripped), Lower(CleanPrefixes[i])) }
  IN  IF found = {} THEN stripped
      ELSE Strip(From(stripped, Len(CleanPrefixes[Min(found)])))

\* https?://
UrlSchemes == {"http://", "https://"}

\* re.search(r"(https?://\S+)", text): the positions at which it matches
UrlMatches(text) ==
  { p \in 1..Len(text) :
      \E scheme \in UrlSchemes :
        /\ p + Len(scheme) <= Len(text)
        /\ SubSeq(text, p, p + Len(scheme) - 1) = scheme
        /\ SubSeq(text, p + Len(scheme), p + Len(scheme)) \notin Whitespace }

\* url_match.group(1): from the first match to the next whitespace
FirstUrl(text) ==
  LET first == Min(UrlMatches(text))
      to == Min({ e \in first..Len(text) :
                    e = Len(text) \/ SubSeq(text, e + 1, e + 1) \in Whitespace })
  IN  SubSeq(text, first, to)

\* re.search(r"\[.*?\]\(https?://.*?\)", text) matches: "[", then "](" and
\* the scheme, then ")", with no newline between them (`.` matches none)
HasMarkdownLink(text) ==
  \E i \in 1..Len(text) :
    /\ SubSeq(text, i, i) = "["
    /\ \E j \in (i + 1)..Len(text), scheme \in UrlSchemes :
         /\ j + 1 + Len(scheme) <= Len(text)
         /\ SubSeq(text, j, j + 1 + Len(scheme)) = "](" \o scheme
         /\ ~Contains(SubSeq(text, i + 1, j - 1), "\n")
         /\ \E k \in (j + 2 + Len(scheme))..Len(text) :
              /\ SubSeq(text, k, k) = ")"
              /\ ~Contains(SubSeq(text, j + 2 + Len(scheme), k - 1), "\n")

\* the greatest element of a set of numbers
Max(S) == CHOOSE x \in S : \A y \in S : y <= x

\* urlparse(url).hostname in (None, "127.0.0.1", "localhost") for a URL that
\* UrlMatches found: the netloc ends at the first of / ? #, the host
\* follows its last @ and ends at its first colon; an empty host is None.
\* (A netloc with a bracket names an IP literal or makes urlparse raise; the
\* host is not one of the three either way.)
IsLocalUrl(url) ==
  LET rest == From(url, IF StartsWith(url, "https://") THEN 8 ELSE 7)
      ends == { i \in 1..Len(rest) : SubSeq(rest, i, i) \in {"/", "?", "#"} }
      netloc == IF ends = {} THEN rest ELSE SubSeq(rest, 1, Min(ends) - 1)
      ats == { i \in 1..Len(netloc) : SubSeq(netloc, i, i) = "@" }
      hostinfo == IF ats = {} THEN netloc ELSE From(netloc, Max(ats))
      colons == { i \in 1..Len(hostinfo) : SubSeq(hostinfo, i, i) = ":" }
      hostname == IF colons = {} THEN hostinfo
                  ELSE SubSeq(hostinfo, 1, Min(colons) - 1)
  IN  /\ ~Contains(netloc, "[") /\ ~Contains(netloc, "]")
      /\ Lower(hostname) \in {"", "127.0.0.1", "localhost"}

\* The text has a URL that is not in a Markdown link.
HasBareUrl(text) == UrlMatches(text) # {} /\ ~HasMarkdownLink(text)

\* The answer to a response that links to a file the server has not got.
MissingFileText ==
  "Percebi que a resposta menciona um arquivo para download, mas o arquivo não foi encontrado no servidor. Quer que eu gere o arquivo agora?"

\* lazy_agent.py: what a text with a bare URL is replaced by
DownloadLink(url) == ":inbox_tray: [Clique aqui para baixar o arquivo](" \o url \o ")"

\* LlamaIndexChatAgent._extract_response_text(response) of adapters.py for a
\* response that is not None.
\*   exists: os.path.exists of the file that the first URL of the text names
extract_response_text(o, exists) ==
  IF /\ o.kind \in {"blocks", "content"}
     /\ HasBareUrl(o.text)
     /\ IsLocalUrl(FirstUrl(o.text))
     /\ ~exists
  THEN MissingFileText
  ELSE o.text

\* LazyLlamaIndexChatAgent._extract_response_text(response) of
\* lazy_agent.py for a response that is not None: it looks for a URL in the
\* text of blocks only, and puts a link in the place of a text that has one.
lazy_extract_response_text(o, exists) ==
  IF o.kind = "blocks" /\ HasBareUrl(o.text)
  THEN IF IsLocalUrl(FirstUrl(o.text)) /\ ~exists
       THEN MissingFileText
       ELSE DownloadLink(FirstUrl(o.text))
  ELSE o.text

\* the kinds of a response that agent.run returned
ResponseKinds == {"return", "blocks", "content", "none"}

\* ------------------------- adapters.py, lazy_agent.py: the database hook
\* _after_cursor_execute for a SELECT statement at time t, get_current()
\* returning cur: the Session objects afterwards.
\* With a session, session_obj.stats raises, the inner except logs it and
\* the line that sets _last_activity is not reached.
\*   counted: whether a query count was incremented.
after_cursor_execute(heap, cur, t) ==
  IF cur.session = None THEN [heap |-> heap, counted |-> FALSE]
  ELSE IF getattr_raises("stats") # None
  THEN [heap |-> heap, counted |-> FALSE]
  ELSE [heap |-> [heap EXCEPT ![cur.session].last_activity = t],
        counted |-> TRUE]

\* ------------------------- adapters.py: QueryProcessorService, the capture
\* The first position of str from e on that holds no whitespace
\* (Len(str) + 1 when there is none): where \s* and \s+ end.
RECURSIVE SkipSpace(_, _)
SkipSpace(str, e) ==
  IF e <= Len(str) /\ SubSeq(str, e, e) \in Whitespace
  THEN SkipSpace(str, e + 1) ELSE e

\* str has the word at position e, letters compared without their case
\* (re.IGNORECASE)
WordAt(str, e, word) ==
  /\ e + Len(word) - 1 <= Len(str)
  /\ Lower(SubSeq(str, e, e + Len(word) - 1)) = word

\* The keywords at which the sql_pattern stops: UNION, ORDER\s+BY,
\* GROUP\s+BY, HAVING, LIMIT, OFFSET.
SqlStops ==
  { <<"union">>, <<"order", "by">>, <<"group", "by">>, <<"having">>,
    <<"limit">>, <<"offset">> }

\* The lookahead of the sql_pattern at position e:
\* \s*$ | \s*; | \s*\) | \s+KEYWORD
SqlStopAt(str, e) ==
  LET n == SkipSpace(str, e)
  IN  \/ n = Len(str) + 1
      \/ SubSeq(str, n, n) \in {";", ")"}
      \/ /\ n > e
         /\ \E stop \in SqlStops :
              /\ WordAt(str, n, stop[1])
              /\ Len(stop) = 2
                   => LET m == SkipSpace(str, n + Len(stop[1]))
                      IN  m > n + Len(stop[1]) /\ WordAt(str, m, stop[2])

\* re.search(sql_pattern, agent_response, re.IGNORECASE | re.DOTALL): the
\* positions at which the pattern matches, SELECT\s+ and then whatever
\* there is up to a stop
SqlMatches(str) ==
  { p \in 1..Len(str) :
      /\ WordAt(str, p, "select")
      /\ p + 6 <= Len(str)
      /\ SubSeq(str, p + 6, p + 6) \in Whitespace }

\* sql_match.group(0).strip(): from the first SELECT, over all the
\* whitespace that follows it (\s+ is greedy), to the first position at
\* which the lookahead holds (.*? is not).
SqlQuery(str) ==
  LET first == Min(SqlMatches(str))
      from == SkipSpace(str, first + 6)
      to == Min({ e \in from..(Len(str) + 1) : SqlStopAt(str, e) })
  IN  Strip(SubSeq(str, first, to - 1))

\* (variant that records one row for every captured result)
try_capture_query_result_rows(session, agent_response, t) ==
  IF SqlMatches(agent_response) = {} THEN session
  ELSE add_query_result(session, QueryResult(SqlQuery(agent_response), 1, <<>>, t), t)

\* QueryProcessorService._try_capture_query_result(agent_response, session)
\* at time t: the session afterwards
try_capture_query_result(session, agent_response, t) ==
  IF SqlMatches(agent_response) = {} THEN session
  ELSE add_query_result(session, QueryResult(SqlQuery(agent_response), 0, <<>>, t), t)

\* ------------------------------------------------ infrastructure/services.py
\* SessionService(repository, session_timeout=3600)
SessionTimeout == 3600

\* SessionId.__post_init__ raises ValueError: the value is empty, or empty
\* after strip().
IsBlankId(sid) == Len(sid) = 0 \/ Len(Strip(sid)) = 0

\* uuid.uuid4() of create_session: an id no session was given yet.
FreshSessionId(heap) ==
  IdOrder[CHOOSE i \in DOMAIN IdOrder :
            /\ IdOrder[i] \notin DOMAIN heap
            /\ \A j \in DOMAIN IdOrder : IdOrder[j] \notin DOMAIN heap => i <= j]

\* InMemorySessionRepository._sessions is a dict: its keys are kept as the
\* sequence in which the dict holds them (the order of insertion).
Stored(keys) == {keys[i] : i \in DOMAIN keys}

\* InMemorySessionRepository.find_by_id(session_id): the session stored
\* under the id, None when there is none.
find_by_id(keys, sid) == IF sid \in Stored(keys) THEN sid ELSE None

\* (variant of save that stores nothing)
save_skip(keys, sid) == keys

\* InMemorySessionRepository.save: self._sessions[id] = session (an id that
\* the dict holds keeps its place)
save(keys, sid) == IF sid \in Stored(keys) THEN keys ELSE Append(keys, sid)

\* InMemorySessionRepository.delete: self._sessions.pop(id, None)
delete(keys, sid) ==
  LET Other(k) == k # sid IN SelectSeq(keys, Other)

\* SessionService.get_session(session_id) run from call to return with no
\* other caller of the store in between: the session found (None when
\* absent or expired) and the repository's keys afterwards.
get_session(keys, heap, sid, t) ==
  IF IsBlankId(sid) THEN [session |-> None, keys |-> keys]
  ELSE IF find_by_id(keys, sid) = None THEN [session |-> None, keys |-> keys]
  ELSE IF is_expired(heap[sid], SessionTimeout, t)
       THEN [session |-> None, keys |-> delete(keys, sid)]
       ELSE [session |-> sid, keys |-> keys]

\* SessionService.create_session() at time t up to its call of
\* self._repository.save: Session(SessionId(str(uuid.uuid4()))), which reads
\* the clock.  The id of the new session and the Session objects afterwards;
\* the repository does not hold the session yet.
create_session(heap, t) ==
  LET sid == FreshSessionId(heap)
  IN  [session |-> sid, heap |-> DictPut(heap, sid, Session(t))]

\* InMemorySessionRepository.find_expired_sessions(timeout_seconds) at time
\* t: the list it returns, in the order of the dict.
find_expired_sessions(keys, heap, timeout, t) ==
  LET Expired(sid) == is_expired(heap[sid], timeout, t)
  IN  SelectSeq(keys, Expired)

\* SessionService.cleanup_expired_sessions(timeout_seconds=3600)
CleanupTimeout == 3600

\* ------------------------------------------- application/interfaces.py
\* ProcessQueryResponse with the defaults of the dataclass; the Optional
\* fields data and retry_after are sequences of at most one element.
Response(success, data, error_code, error_type, retry_after, session_id, context_used) ==
  [success |-> success, data |-> data, error_code |-> error_code,
   error_type |-> error_type, retry_after |-> retry_after,
   session_id |-> session_id, context_used |-> context_used]

NoResponse == Response(FALSE, <<"no response yet">>, None, None, <<>>, None, FALSE)

\* ------------------------------------------ application/use_cases.py
\* [0-9]+ matches the whole string: one decimal digit or more
IsDigits(str) ==
  /\ Len(str) >= 1
  /\ \A i \in 1..Len(str) :
       SubSeq(str, i, i) \in {"0", "1", "2", "3", "4", "5", "6", "7", "8", "9"}

\* int(str) of a string of decimal digits
RECURSIVE IntOf(_)
IntOf(str) ==
  IF Len(str) = 0 THEN 0
  ELSE 10 * IntOf(SubSeq(str, 1, Len(str) - 1))
       + (CHOOSE d \in 0..9 : ToString(d) = SubSeq(str, Len(str), Len(str)))

\* re.search(r'retry in ([0-9]+)', error_msg): the positions of error_msg
\* at which the pattern matches
RetryMatches(error_msg) ==
  { p \in 1..Len(error_msg) :
      /\ p + 9 <= Len(error_msg)
      /\ SubSeq(error_msg, p, p + 8) = "retry in "
      /\ IsDigits(SubSeq(error_msg, p + 9, p + 9)) }

\* retry_seconds = int(retry_match.group(1)) if retry_match else 30
DefaultRetrySeconds == 30

\* (variant that never reads the hint)
retry_seconds_default(error_msg) == DefaultRetrySeconds

\* group(1) of the first match is the longest run of digits that follows
\* "retry in "
retry_seconds(error_msg) ==
  IF RetryMatches(error_msg) = {} THEN DefaultRetrySeconds
  ELSE LET from == Min(RetryMatches(error_msg)) + 9
           to == CHOOSE e \in from..Len(error_msg) :
                   /\ IsDigits(SubSeq(error_msg, from, e))
                   /\ e < Len(error_msg) => ~IsDigits(SubSeq(error_msg, e + 1, e + 1))
       IN  IntOf(SubSeq(error_msg, from, to))

\* the condition of the quota branch
IsQuotaMessage(error_msg) ==
  /\ Contains(error_msg, "429")
  /\ \/ Contains(Lower(error_msg), "quota")
     \/ Contains(error_msg, "RESOURCE_EXHAUSTED")
     \/ Contains(error_msg, "Too Many Requests")

\* the condition of the token-limit branch
IsTokenLimitMessage(error_msg) ==
  \/ Contains(error_msg, "MAX_TOKENS")
  \/ Contains(error_msg, "Response was terminated early")

\* `except asyncio.CancelledError` of ProcessQueryUseCase.execute
CancelledResponse ==
  Response(FALSE, <<>>, "CANCELLED", "CANCELLED", <<>>, None, FALSE)

\* `except Exception as e` of ProcessQueryUseCase.execute, error_msg = str(e)
ErrorResponse(error_msg) ==
  IF IsQuotaMessage(error_msg)
  THEN Response(FALSE, <<>>, "QUOTA_EXCEEDED", "QUOTA_ERROR",
                <<retry_seconds(error_msg)>>, None, FALSE)
  ELSE IF IsTokenLimitMessage(error_msg)
  THEN Response(FALSE, <<>>, "MAX_TOKENS", "MODEL_ERROR", <<>>, None, FALSE)
  ELSE Response(FALSE, <<>>, "PROCESSING_ERROR", "SERVER_ERROR", <<>>, None, FALSE)

\* What leaves execute when an exception is not caught by it.
Propagated ==
  Response(FALSE, <<"exception propagated">>, None, None, <<>>, None, FALSE)

\* (variant without the `except asyncio.CancelledError` clause)
execute_except_exception_only(exc) ==
  IF exc.kind = "cancelled" THEN Propagated ELSE ErrorResponse(exc.text)

\* The except clauses of ProcessQueryUseCase.execute for what the try block
\* raised: CancelledError (kind "cancelled") or an Exception with its message.
execute_except(exc) ==
  IF exc.kind = "cancelled" THEN CancelledResponse ELSE ErrorResponse(exc.text)

\* the response to an empty or whitespace-only query
EmptyQueryResponse == Response(FALSE, <<>>, None, None, <<>>, None, FALSE)

\* the response of a turn that succeeded
SuccessResponse(text, session_id) ==
  Response(TRUE, <<text>>, None, None, <<>>, session_id, TRUE)

\* ------------------------------------------------------------------ state
VARIABLES
  registry,      \* execution_context._registry: request_id -> entry
  ctxvar,        \* (_session_var, _request_id_var) in the context of each task
  thread_local,  \* execution_context._thread_local of each thread
  turn,          \* each turn's request, locals and position in execute
  queue,         \* calls handed to asyncio.to_thread that no thread took yet
  job,           \* the call each pooled thread is running
  agent,         \* each turn's agent run: position, tool effects, outcome
  sessions,      \* the Session objects constructed so far, by id
  store,         \* keys of InMemorySessionRepository._sessions
  now,           \* datetime.now(), in seconds
  ticks,         \* how often the clock advanced
  resp           \* what execute returned for each turn

vars == <<registry, ctxvar, thread_local, turn, queue, job, agent,
          sessions, store, now, ticks, resp>>

\* the locals of a turn that has not started
IdleTurn ==
  [pc |-> "idle", query |-> "", session |-> None, request_id |-> None,
   kind |-> None, tokens |-> Unbound, must_cancel |-> FALSE,
   awaited |-> Pending, exit |-> None, raised |-> Pending, latched |-> FALSE,
   created |-> FALSE, enhanced |-> "", alone |-> FALSE]

\* an agent run that has not started
NoRun ==
  [pc |-> "none", outcome |-> Pending, name |-> None, tool |-> "",
   sql_executed |-> FALSE, file_written |-> FALSE, timed_out |-> FALSE]

\* A pooled thread that runs no call.  The fields of a call:
\*   turn, fn, ctx, bound: a call handed to asyncio.to_thread for a turn;
\*   fn, sid, session, expired, held, exc: a call of the session store made
\*     by an endpoint that is a plain function: the id it was given, what
\*     get_session returned, the ids it found expired and has yet to delete,
\*     a Session it built and has not saved, and the exception it raised.
NoJob ==
  [turn |-> None, fn |-> None, ctx |-> Unbound, bound |-> FALSE, pc |-> "idle",
   sid |-> None, session |-> None, expired |-> <<>>, held |-> <<>>,
   exc |-> None]

Call(t, fn, cv) == [turn |-> t, fn |-> fn, ctx |-> cv]

EmptyDict == [x \in {} |-> None]

\* A session as an earlier, completed turn left it in the store.
EarlierSession ==
  [created_at |-> 0, last_activity |-> 0,
   query_results |-> <<>>, active_dataset |-> <<>>,
   messages |-> << Message("user", "q"), Message("assistant", "ok") >>]

\* The sessions the store can hold when the turns of the model start.
PriorSessions == { EmptyDict, [x \in {"s1"} |-> EarlierSession] }

\* the keys of a store that holds the sessions of prior
PriorKeys(prior) == IF "s1" \in DOMAIN prior THEN <<"s1">> ELSE <<>>

InitWith(prior) ==
  /\ registry = EmptyDict
  /\ ctxvar = [t \in Turns |-> Unbound]
  /\ thread_local = [th \in Threads |-> Unbound]
  /\ turn = [t \in Turns |-> IdleTurn]
  /\ queue = {}
  /\ job = [w \in PoolThreads |-> NoJob]
  /\ agent = [t \in Turns |-> NoRun]
  /\ sessions = prior
  /\ store = PriorKeys(prior)
  /\ now = 0
  /\ ticks = 0
  /\ resp = [t \in Turns |-> NoResponse]

Init == \E prior \in PriorSessions : InitWith(prior)

\* The turn is inside QueryProcessorService.process_query.
InFlight(t) ==
  turn[t].pc \notin {"idle", "evicting", "resolved", "built", "created", "done"}

\* The event loop's thread runs one task at a time, from one suspension to
\* the next: while execute is between its entry and its first await, no
\* other task and no other coroutine of the loop runs.  The pooled threads
\* and the clock go on.
LoopFree ==
  \A u \in Turns : turn[u].pc \notin {"evicting", "resolved", "built", "created"}

\* str(uuid.uuid4()) of execute when the request names no session: an id
\* the store does not know.
UnknownSessionId == "uuid4"

\* Turns are interchangeable, and so are the pooled threads: the model names
\* them in the order in which they are taken.
StartsInOrder(t) == t = "B" => turn["A"].pc # "idle"
FirstIdle(w) == w = "w2" => job["w1"] # NoJob

\* ----------------------------------------------------- the start of a turn
\* ProcessQueryUseCase.execute from its entry into get_session: the check of
\* the query, then find_by_id (under the repository's lock) and is_expired.
\*   kind: the agent that the processor was built with;
\*   fault: the session store call that raises, if any.
ExecuteGet(t, query, sidIn, ridIn, kind, fault) ==
  /\ turn[t].pc = "idle"
  /\ StartsInOrder(t)
  /\ LoopFree
  /\ IF Strip(query) = ""
     THEN /\ resp' = [resp EXCEPT ![t] = EmptyQueryResponse]
          /\ turn' = [turn EXCEPT ![t].pc = "done", ![t].exit = "validation"]
     ELSE IF fault = "get_session"
     THEN /\ resp' = [resp EXCEPT ![t] = execute_except(StoreError)]
          /\ turn' = [turn EXCEPT ![t].pc = "done", ![t].query = query,
                                  ![t].exit = "store", ![t].raised = StoreError]
     ELSE LET session_id == IF sidIn # "" THEN sidIn ELSE UnknownSessionId
              session == IF IsBlankId(session_id) THEN None
                         ELSE find_by_id(store, session_id)
              expired == IF session = None THEN FALSE
                         ELSE is_expired(sessions[session], SessionTimeout, now)
          IN  /\ resp' = resp
              /\ turn' = [turn EXCEPT ![t] =
                    [IdleTurn EXCEPT
                       !.pc = IF expired THEN "evicting" ELSE "resolved",
                       !.query = query, !.session = session,
                       !.request_id = ridIn, !.kind = kind]]
  /\ UNCHANGED <<registry, ctxvar, thread_local, queue, job, agent,
                 sessions, store, now, ticks>>

\* get_session found the session expired: self._repository.delete(sid), and
\* it returns None.
ExecuteEvict(t) ==
  /\ turn[t].pc = "evicting"
  /\ store' = delete(store, turn[t].session)
  /\ turn' = [turn EXCEPT ![t].pc = "resolved", ![t].session = None]
  /\ UNCHANGED <<registry, ctxvar, thread_local, queue, job, agent,
                 sessions, now, ticks, resp>>

\* get_session returned None: session = self._session_service.create_session(),
\* up to the Session it constructs.
\*   fault: the session store call that raises, if any.
ExecuteCreate(t, fault) ==
  /\ turn[t].pc = "resolved"
  /\ turn[t].session = None
  /\ IF fault = "create_session"
     THEN /\ resp' = [resp EXCEPT ![t] = execute_except(StoreError)]
          /\ turn' = [turn EXCEPT ![t] =
                [IdleTurn EXCEPT !.pc = "done", !.query = turn[t].query,
                                 !.exit = "store", !.raised = StoreError]]
          /\ UNCHANGED <<sessions, store>>
     ELSE /\ SessionIds \ DOMAIN sessions # {}
          /\ LET made == create_session(sessions, now)
             IN  /\ sessions' = made.heap
                 /\ turn' = [turn EXCEPT ![t].pc = "built",
                                         ![t].session = made.session,
                                         ![t].created = TRUE]
          /\ UNCHANGED <<store, resp>>
  /\ UNCHANGED <<registry, ctxvar, thread_local, queue, job, agent, now, ticks>>

\* ... self._repository.save(session) of create_session, under the
\* repository's lock; create_session returns.
ExecuteSave(t) ==
  /\ turn[t].pc = "built"
  /\ store' = save(store, turn[t].session)
  /\ turn' = [turn EXCEPT ![t].pc = "created"]
  /\ UNCHANGED <<registry, ctxvar, thread_local, queue, job, agent, sessions,
                 now, ticks, resp>>

\* ProcessQueryUseCase.execute from the session it has (found or created) to
\* the first suspension of the task inside
\* QueryProcessorService.process_query: the user message, the binding of the
\* context, the registration of the task, the dispatch of the agent.
ExecuteStart(t) ==
  /\ \/ turn[t].pc = "created"
     \/ turn[t].pc = "resolved" /\ turn[t].session # None
  /\ LET sid == turn[t].session
         query == turn[t].query
         kind == turn[t].kind
         rid == IF turn[t].request_id # None THEN turn[t].request_id ELSE Uuid4(t)
         user_message == Message("user", query)
         bind == set_for_context(ctxvar[t], sid, rid)
         started == [IdleTurn EXCEPT
                       !.query = query, !.session = sid,
                       !.request_id = rid, !.kind = kind,
                       !.created = turn[t].created,
                       !.alone = \A u \in Turns \ {t} : ~InFlight(u),
                       !.enhanced = enhance_query(query,
                           add_message(sessions[sid], user_message, now)).text]
     IN
     /\ sessions' = [sessions EXCEPT ![sid] = add_message(@, user_message, now)]
     /\ IF kind \in {"coro", "lazy"}
        THEN /\ ctxvar' = [ctxvar EXCEPT ![t] = bind.cv]
             /\ registry' = register_task(registry, rid, t)
             /\ thread_local' = thread_local
             /\ turn' = [turn EXCEPT ![t] =
                  [started EXCEPT
                     !.pc = IF kind = "coro" THEN "in_agent" ELSE "await_thread",
                     !.tokens = bind.tokens]]
             /\ IF kind = "coro"
                THEN /\ agent' = [agent EXCEPT ![t] = [NoRun EXCEPT !.pc = "start"]]
                     /\ queue' = queue
                ELSE /\ agent' = agent
                     /\ queue' = queue \cup {Call(t, "adapter", bind.cv)}
        ELSE /\ thread_local' = [thread_local EXCEPT
                                   ![LoopThread] = set_for_thread(sid, rid)]
             /\ queue' = queue \cup {Call(t, "proc", ctxvar[t])}
             /\ turn' = [turn EXCEPT ![t] = [started EXCEPT !.pc = "await_thread"]]
             /\ UNCHANGED <<registry, ctxvar, agent>>
  /\ UNCHANGED <<job, store, now, ticks, resp>>

\* ------------------------------------------------------ the worker thread
\* A pooled thread takes a call handed to asyncio.to_thread.  The call runs
\* in the copy of the context that to_thread made when it was handed over.
\*   fn = "adapter": AsyncAgentAdapter._call_proc_with_thread_context
\*   fn = "proc":    the agent's process_query itself
\* Both then run LazyLlamaIndexChatAgent.process_query up to
\* future.result(timeout=120), run_sync being submitted to a new thread.
WorkerStart(w, c) ==
  /\ job[w] = NoJob
  /\ FirstIdle(w)
  /\ c \in queue
  /\ LET cur == get_current(c.ctx, thread_local[w])
         bound == c.fn = "adapter" /\ (cur.session # None \/ cur.request_id # None)
     IN
     /\ thread_local' = IF bound
                        THEN [thread_local EXCEPT
                                ![w] = set_for_thread(cur.session, cur.request_id)]
                        ELSE thread_local
     /\ job' = [job EXCEPT ![w] =
                  [NoJob EXCEPT !.turn = c.turn, !.fn = c.fn, !.ctx = c.ctx,
                                !.bound = bound, !.pc = "wait_future"]]
  /\ queue' = queue \ {c}
  /\ agent' = [agent EXCEPT ![c.turn] = [NoRun EXCEPT !.pc = "start"]]
  /\ UNCHANGED <<registry, ctxvar, turn, sessions, store, now, ticks, resp>>

\* future.result(timeout=120) expires; leaving the `with` block then waits
\* for the executor's thread (shutdown(wait=True)).
FutureTimeout(w) ==
  /\ job[w].pc = "wait_future"
  /\ agent[job[w].turn].pc # "finished"
  /\ job' = [job EXCEPT ![w].pc = "shutdown_wait"]
  /\ agent' = [agent EXCEPT ![job[w].turn].timed_out = TRUE]
  /\ UNCHANGED <<registry, ctxvar, thread_local, turn, queue, sessions, store,
                 now, ticks, resp>>

\* What LazyLlamaIndexChatAgent.process_query hands back for the outcome of
\* run_sync, timed_out telling whether future.result had expired:
\* self._clean_response(self._extract_response_text(response)) for a
\* response, a fixed text for None.
lazy_process_query_result(o, timed_out, exists) ==
  IF timed_out THEN Outcome("raise", TimeoutMessage)
  ELSE IF o.kind \notin ResponseKinds THEN o
  ELSE IF o.kind = "none" THEN Outcome("return", NoResponseText)
  ELSE Outcome("return", clean_response(lazy_extract_response_text(o, exists)))

\* The executor's thread has finished: process_query returns or raises, the
\* adapter's finally clears the thread-local it set, and the future that the
\* task awaits is completed (nobody reads it if the task is gone).
\*   exists: whether the server has the file that the response links to.
WorkerFinish(w, exists) ==
  /\ job[w].pc \in {"wait_future", "shutdown_wait"}
  /\ agent[job[w].turn].pc = "finished"
  /\ LET t == job[w].turn
         result == lazy_process_query_result(agent[t].outcome,
                                             job[w].pc = "shutdown_wait", exists)
     IN
     /\ thread_local' = IF job[w].bound
                        THEN [thread_local EXCEPT ![w] = clear_for_thread(@)]
                        ELSE thread_local
     /\ turn' = IF turn[t].pc = "await_thread"
                THEN [turn EXCEPT ![t].awaited = result]
                ELSE turn
  /\ job' = [job EXCEPT ![w] = NoJob]
  /\ UNCHANGED <<registry, ctxvar, queue, agent, sessions, store, now, ticks, resp>>

\* -------------------------------------------------------------- the agent
\* The context and the thread in which the agent's tools run:
\* the task itself for "coro", the executor's thread (a thread started
\* by ThreadPoolExecutor: default ContextVars, own thread-local) otherwise.
ToolContext(t) == IF turn[t].kind = "coro" THEN ctxvar[t] ELSE Unbound
ToolThread(t) == IF turn[t].kind = "coro" THEN LoopThread ELSE ExecThread(t)

\* is_cancelled_current() as a checkpoint of the turn's tool evaluates it
Checkpoint(t) ==
  is_cancelled_current(registry, ToolContext(t), thread_local[ToolThread(t)])

\* get_current() as the tool of the turn and the database hook evaluate it
ToolCurrent(t) == get_current(ToolContext(t), thread_local[ToolThread(t)])

\* conn.execute(text(sql_query)) of the tool, unless the checkpoint before
\* it observed cancellation: the hook runs in the tool's thread once the
\* statement has been executed, and not when it raised.
tool_sessions(heap, cp, fault, cur, t) ==
  IF cp \/ fault # "none" THEN heap ELSE after_cursor_execute(heap, cur, t).heap

\* A tool of lazy_agent.py up to the rows being fetched: the checkpoint
\* before conn.execute (generate_data_csv has none), then the query.  A
\* ProgrammingError is answered with the tables there are, any other
\* exception by the outer except clause.
tool_first_half(run, cp, fault) ==
  IF cp
  THEN [run EXCEPT !.tool = CancelledSentinel, !.pc = "after_tool"]
  ELSE IF fault = "ProgrammingError"
  THEN [run EXCEPT !.tool = SqlError(DbErrorMessage, DbTables), !.pc = "after_tool"]
  ELSE IF fault # "none"
  THEN [run EXCEPT !.tool = ToolError(run.name, DbErrorMessage), !.pc = "after_tool"]
  ELSE [run EXCEPT !.sql_executed = TRUE, !.pc = "fetched"]

\* A tool of lazy_agent.py from the fetched rows on: the checkpoint after
\* the DB operation (generate_data_csv has none), then the export and the
\* export file.
\*   output: what pdf.output(dest='S') of the fpdf package in use returns.
\*     DataPdfExporter.export calls .encode('latin1') on it: a str is
\*     encoded and the file is written; a bytearray has no encode, and the
\*     tool's except clause returns the error text before any file is
\*     opened.  The exporters of the other tools do not call it.
tool_second_half(run, cp, output) ==
  IF cp
  THEN [run EXCEPT !.tool = CancelledSentinel, !.pc = "after_tool"]
  ELSE IF run.name = "pdf" /\ output = "bytearray"
  THEN [run EXCEPT !.tool = ToolError(run.name, NoEncode), !.pc = "after_tool"]
  ELSE [run EXCEPT !.file_written = TRUE, !.tool = ToolLink(run.name),
                   !.pc = "after_tool"]

\* generate_data_pdf of adapters.py up to the rows being fetched: the
\* checkpoint, then the query; the outer except clause answers every
\* exception.
adapter_tool_first_half(run, cp, fault) ==
  IF cp
  THEN [run EXCEPT !.tool = CancelledSentinel, !.pc = "after_tool"]
  ELSE IF fault # "none"
  THEN [run EXCEPT !.tool = ToolError(run.name, DbErrorMessage), !.pc = "after_tool"]
  ELSE [run EXCEPT !.sql_executed = TRUE, !.pc = "fetched"]

\* generate_data_pdf of adapters.py from the fetched rows on: the checkpoint
\* after the DB operation, then DataPdfExporter.export_query_data, which
\* raises; the tool's except clause returns the error text and no file is
\* written.
adapter_tool_second_half(run, cp) ==
  IF cp
  THEN [run EXCEPT !.tool = CancelledSentinel, !.pc = "after_tool"]
  ELSE [run EXCEPT !.tool = ToolError(run.name, NoExportQueryData),
                   !.pc = "after_tool"]

\* The agent of lazy_agent.py calls one of its tools on the executor's
\* thread, at first or after another call of a tool: first half.  The
\* ReActAgent stops after max_iterations=10 steps; what a call of a tool
\* leaves behind does not depend on how many calls preceded it, so the
\* calls are not counted.
\*   fault: what conn.execute raises, if anything.
ToolBegin(t, name, fault) ==
  /\ turn[t].kind \in {"lazy", "sync"}
  /\ agent[t].pc \in {"start", "after_tool"}
  /\ LET cp == name # "csv" /\ Checkpoint(t)
     IN  /\ agent' = [agent EXCEPT
                        ![t] = tool_first_half([@ EXCEPT !.name = name], cp, fault)]
         /\ sessions' = tool_sessions(sessions, cp, fault, ToolCurrent(t), now)
  /\ UNCHANGED <<registry, ctxvar, thread_local, turn, queue, job,
                 store, now, ticks, resp>>

\* ... second half.
ToolEnd(t, output) ==
  /\ turn[t].kind \in {"lazy", "sync"}
  /\ agent[t].pc = "fetched"
  /\ LET cp == agent[t].name # "csv" /\ Checkpoint(t)
     IN  agent' = [agent EXCEPT ![t] = tool_second_half(@, cp, output)]
  /\ UNCHANGED <<registry, ctxvar, thread_local, turn, queue, job, sessions,
                 store, now, ticks, resp>>

\* The agent of adapters.py calls its generate_data_pdf inside the task: the
\* tool is a plain function, so the task runs it from entry to return
\* without suspending.
ToolInTask(t, fault) ==
  /\ LoopFree
  /\ turn[t].kind = "coro"
  /\ turn[t].pc = "in_agent"
  /\ ~turn[t].must_cancel
  /\ agent[t].pc \in {"start", "after_tool"}
  /\ LET half == adapter_tool_first_half([agent[t] EXCEPT !.name = "pdf"],
                                         Checkpoint(t), fault)
     IN  agent' = [agent EXCEPT ![t] =
                     IF half.pc = "fetched"
                     THEN adapter_tool_second_half(half, Checkpoint(t))
                     ELSE half]
  /\ sessions' = tool_sessions(sessions, Checkpoint(t), fault, ToolCurrent(t), now)
  /\ UNCHANGED <<registry, ctxvar, thread_local, turn, queue, job,
                 store, now, ticks, resp>>

\* What an agent run can end with.
AgentOutcomes ==
  AgentResponses \cup {Outcome("none", "")}
    \cup {Outcome("raise", error_msg) : error_msg \in ErrorMessages}

\* run_sync ends in the executor's thread.
AgentFinish(t, o) ==
  /\ turn[t].kind \in {"lazy", "sync"}
  /\ agent[t].pc \in {"start", "after_tool"}
  /\ agent' = [agent EXCEPT ![t].pc = "finished", ![t].outcome = o]
  /\ UNCHANGED <<registry, ctxvar, thread_local, turn, queue, job, sessions,
                 store, now, ticks, resp>>

\* --------------------------------------------------------- the end of a turn
\* What LlamaIndexChatAgent.process_query makes of the result of agent.run:
\* self._clean_response(self._extract_response_text(response)), where
\* _extract_response_text falls back to str(response), "None" for None.
coro_process_query_result(o, exists) ==
  IF o.kind \notin ResponseKinds THEN o
  ELSE IF o.kind = "none" THEN Outcome("return", clean_response("None"))
  ELSE Outcome("return", clean_response(extract_response_text(o, exists)))

\* (variant that takes the user message back when the turn fails)
turn_end_session_rollback(session, o, t) ==
  IF o.kind = "return"
  THEN add_message(try_capture_query_result(session, o.text, t),
                   Message("assistant", o.text), t)
  ELSE [session EXCEPT !.messages = SubSeq(@, 1, Len(@) - 1)]

\* The session of a turn after the await of process_query ended with outcome
\* o at time t: for a reply, the capture of its query and the assistant
\* message; the except clauses leave the session alone.
turn_end_session(session, o, t) ==
  IF o.kind = "return"
  THEN add_message(try_capture_query_result(session, o.text, t),
                   Message("assistant", o.text), t)
  ELSE session

\* The task leaves the await of process_query with outcome o (a reply, an
\* exception, or CancelledError): the finally blocks of
\* QueryProcessorService.process_query, then the rest of
\* ProcessQueryUseCase.execute (for a reply: the capture of its query, the
\* assistant message, the save).  saveFault: save_session raises.  A call
\* handed to asyncio.to_thread that no thread has taken is cancelled with the
\* task and never runs.
Complete(t, o, saveFault) ==
  LET sid == turn[t].session
      rid == turn[t].request_id
  IN
  /\ thread_local' = IF turn[t].kind = "sync"
                     THEN [thread_local EXCEPT ![LoopThread] = clear_for_thread(@)]
                     ELSE thread_local
  /\ ctxvar' = IF turn[t].kind \in {"coro", "lazy"}
               THEN [ctxvar EXCEPT ![t] = reset_context(@, turn[t].tokens)]
               ELSE ctxvar
  /\ registry' = unregister_task(registry, rid)
  /\ queue' = {c \in queue : c.turn # t}
  /\ sessions' = [sessions EXCEPT ![sid] = turn_end_session(@, o, now)]
  /\ IF o.kind = "return"
     THEN /\ IF saveFault
             THEN /\ store' = store
                  /\ resp' = [resp EXCEPT ![t] = execute_except(StoreError)]
                  /\ turn' = [turn EXCEPT ![t].pc = "done", ![t].exit = o.kind,
                                          ![t].raised = StoreError]
             ELSE /\ store' = save(store, sid)
                  /\ resp' = [resp EXCEPT ![t] = SuccessResponse(o.text, sid)]
                  /\ turn' = [turn EXCEPT ![t].pc = "done", ![t].exit = o.kind]
     ELSE /\ resp' = [resp EXCEPT ![t] = execute_except(o)]
          /\ turn' = [turn EXCEPT ![t].pc = "done", ![t].exit = o.kind,
                                  ![t].raised = o]
          /\ store' = store
  /\ UNCHANGED <<job, now, ticks>>

\* The future of asyncio.to_thread is done and the task resumes.
TaskResume(t, saveFault) ==
  /\ LoopFree
  /\ turn[t].pc = "await_thread"
  /\ turn[t].awaited # Pending
  /\ ~turn[t].must_cancel
  /\ Complete(t, turn[t].awaited, saveFault)
  /\ agent' = agent

\* The agent's coroutine ends inside the task, which runs on to the end of
\* execute.
\*   exists: whether the server has the file that the response links to.
CoroFinish(t, o, exists, saveFault) ==
  /\ LoopFree
  /\ turn[t].kind = "coro"
  /\ turn[t].pc = "in_agent"
  /\ ~turn[t].must_cancel
  /\ agent[t].pc \in {"start", "after_tool"}
  /\ agent' = [agent EXCEPT ![t].pc = "finished", ![t].outcome = o]
  /\ Complete(t, coro_process_query_result(o, exists), saveFault)

\* task.cancel() was requested: the task is resumed with CancelledError at
\* the await it is suspended in.
TaskCancelled(t) ==
  /\ LoopFree
  /\ InFlight(t)
  /\ turn[t].must_cancel
  /\ Complete(t, Outcome("cancelled", ""), FALSE)
  /\ agent' = IF turn[t].kind = "coro"
              THEN [agent EXCEPT ![t].pc = "finished",
                                 ![t].outcome = Outcome("cancelled", "")]
              ELSE agent

\* ------------------------------------------------------------ cancellation
\* POST /requests/{request_id}/cancel: set_cancel(request_id), a coroutine
\* of the event loop
SetCancel(r) ==
  /\ LoopFree
  /\ LET res == set_cancel(registry, r, FALSE)
     IN  /\ registry' = res.registry
         /\ turn' = [t \in Turns |->
                       [turn[t] EXCEPT
                          !.must_cancel = @ \/ (res.cancelled = t /\ InFlight(t)),
                          !.latched = @ \/ (InFlight(t) /\ turn[t].request_id = r)]]
  /\ UNCHANGED <<ctxvar, thread_local, queue, job, agent, sessions, store,
                 now, ticks, resp>>

\* get_cancel_event_for_request(request_id), called from any thread (the
\* repository has no caller of it)
GetCancelEvent(r) ==
  /\ registry' = get_cancel_event_for_request(registry, r)
  /\ registry' # registry
  /\ UNCHANGED <<ctxvar, thread_local, turn, queue, job, agent, sessions,
                 store, now, ticks, resp>>

\* The server cancels the task of a request (the client disconnected).
Disconnect(t) ==
  /\ LoopFree
  /\ InFlight(t)
  /\ ~turn[t].must_cancel
  /\ turn' = [turn EXCEPT ![t].must_cancel = TRUE]
  /\ UNCHANGED <<registry, ctxvar, thread_local, queue, job, agent, sessions,
                 store, now, ticks, resp>>

\* -------------------------------------------------------------------- time
MaxTicks == 1

\* how far the clock runs
MaxClock == 3601

\* the clock advances by d seconds
Tick(d) ==
  /\ ticks < MaxTicks
  /\ now + d <= MaxClock
  /\ now' = now + d
  /\ ticks' = ticks + 1
  /\ UNCHANGED <<registry, ctxvar, thread_local, turn, queue, job, agent,
                 sessions, store, resp>>

\* ------------------------------------------------------------ specification
\* One turn from its request to its response, with every input it can get.
Next ==
  \/ \E q \in Queries, sid \in SessionIdInputs(sessions),
        rid \in ClientRequestIds \cup {None}, k \in AgentKinds,
        f \in {"none", "get_session"} :
       ExecuteGet("A", q, sid, rid, k, f)
  \/ ExecuteEvict("A")
  \/ \E f \in {"none", "create_session"} : ExecuteCreate("A", f)
  \/ ExecuteSave("A")
  \/ ExecuteStart("A")
  \/ \E w \in PoolThreads, c \in queue : WorkerStart(w, c)
  \/ \E w \in PoolThreads : FutureTimeout(w)
  \/ \E w \in PoolThreads, exists \in BOOLEAN : WorkerFinish(w, exists)
  \/ \E name \in ToolNames, fault \in SqlFaults : ToolBegin("A", name, fault)
  \/ \E output \in {"str", "bytearray"} : ToolEnd("A", output)
  \/ \E fault \in SqlFaults : ToolInTask("A", fault)
  \/ \E o \in AgentOutcomes : AgentFinish("A", o)
  \/ \E sf \in BOOLEAN : TaskResume("A", sf)
  \/ \E o \in AgentOutcomes, exists \in BOOLEAN, sf \in BOOLEAN :
       CoroFinish("A", o, exists, sf)
  \/ TaskCancelled("A")
  \/ \E r \in ClientRequestIds : SetCancel(r)
  \/ \E r \in ClientRequestIds : GetCancelEvent(r)
  \/ Disconnect("A")
  \/ Tick(SessionTimeout + 1)

Spec == Init /\ [][Next]_vars

\* Two turns in flight together, each with a query that passes validation
\* and a store that does not fail.
PairOutcomes == { Outcome("return", "ok"), Outcome("raise", "boom") }

NextPair ==
  \/ \E t \in Turns, sid \in SessionIdInputs(sessions),
        rid \in ClientRequestIds \cup {None}, k \in AgentKinds :
       ExecuteGet(t, "q", sid, rid, k, "none")
  \/ \E t \in Turns : ExecuteCreate(t, "none")
  \/ \E t \in Turns : ExecuteSave(t)
  \/ \E t \in Turns : ExecuteStart(t)
  \/ \E w \in PoolThreads, c \in queue : WorkerStart(w, c)
  \/ \E w \in PoolThreads : WorkerFinish(w, TRUE)
  \/ \E t \in Turns, o \in PairOutcomes : AgentFinish(t, o)
  \/ \E t \in Turns : TaskResume(t, FALSE)
  \/ \E t \in Turns, o \in PairOutcomes : CoroFinish(t, o, TRUE, FALSE)
  \/ \E t \in Turns : TaskCancelled(t)
  \/ \E r \in ClientRequestIds : SetCancel(r)
  \/ \E t \in Turns : Disconnect(t)

SpecPair == InitWith(EmptyDict) /\ [][NextPair]_vars

\* Two turns on the sessions that execute creates, each with its own query;
\* the agent answers with a plain text or with a text that has a query in it,
\* or fails; a client can disconnect.
TurnQuery(t) == IF t = "A" THEN "q" ELSE "dessas"

SessionOutcomes ==
  { Outcome("return", "ok"), Outcome("return", "Select 1 limit 5"),
    Outcome("raise", "boom") }

SessionKinds == {"coro", "lazy"}

NextSession ==
  \/ \E t \in Turns, sid \in SessionIdInputs(sessions), k \in SessionKinds :
       ExecuteGet(t, TurnQuery(t), sid, None, k, "none")
  \/ \E t \in Turns : ExecuteCreate(t, "none")
  \/ \E t \in Turns : ExecuteSave(t)
  \/ \E t \in Turns : ExecuteStart(t)
  \/ \E w \in PoolThreads, c \in queue : WorkerStart(w, c)
  \/ \E w \in PoolThreads : WorkerFinish(w, TRUE)
  \/ \E t \in Turns, o \in SessionOutcomes : AgentFinish(t, o)
  \/ \E t \in Turns : TaskResume(t, FALSE)
  \/ \E t \in Turns, o \in SessionOutcomes : CoroFinish(t, o, TRUE, FALSE)
  \/ \E t \in Turns : TaskCancelled(t)
  \/ \E t \in Turns : Disconnect(t)

SpecSession == InitWith(EmptyDict) /\ [][NextSession]_vars

\* ------------------------------------ the store's calls, lock by lock
\* The endpoints that are plain functions (create_session, get_session_info,
\* update_session_stats, cleanup_sessions, export_session, sync_session) run
\* in pooled threads, beside the event loop and beside each other.  The
\* repository's lock is held inside find_by_id, find_expired_sessions, delete
\* and save, and released between them; is_expired is evaluated outside the
\* lock.
MaxSessions == 2

\* The call fn(sid) of a pooled thread, at its entry.
StoreCall(fn, sid) == [NoJob EXCEPT !.fn = fn, !.sid = sid]

\* SessionManagementUseCase.create_session() of POST /sessions, into
\* SessionService.create_session up to the Session it constructs; the save
\* is next.
\*   limit: how many sessions there can be before clients stop asking.
CreateSession(w, limit) ==
  /\ job[w] = NoJob
  /\ FirstIdle(w)
  /\ Cardinality(DOMAIN sessions) < limit
  /\ LET made == create_session(sessions, now)
     IN  /\ sessions' = made.heap
         /\ job' = [job EXCEPT ![w] =
              [StoreCall("create_session", None) EXCEPT
                 !.session = made.session, !.pc = "save"]]
  /\ UNCHANGED <<registry, ctxvar, thread_local, turn, queue, agent,
                 store, now, ticks, resp>>

\* self._repository.save(session) of SessionService.create_session, under
\* the repository's lock.  create_session of the use case then returns;
\* in update_session_stats, session.update_stats raises (use_cases.py:166).
SaveCreated(w) ==
  /\ job[w].pc = "save"
  /\ store' = save(store, job[w].session)
  /\ job' = [job EXCEPT ![w] =
       IF job[w].fn = "create_session" THEN NoJob
       ELSE [job[w] EXCEPT !.pc = "raised",
                           !.exc = getattr_raises("update_stats")]]
  /\ UNCHANGED <<registry, ctxvar, thread_local, turn, queue, agent, sessions,
                 now, ticks, resp>>

\* SessionManagementUseCase.get_session_stats after get_session returned:
\* None for no session, else session.stats raises (use_cases.py:152).
get_session_stats_rest(call, session) ==
  IF session = None THEN NoJob
  ELSE [call EXCEPT !.session = session, !.pc = "raised",
                    !.exc = getattr_raises("stats")]

\* SessionManagementUseCase.update_session_stats after get_session returned:
\* with no session it goes on to create_session; with one,
\* session.update_stats raises (use_cases.py:166).
update_session_stats_rest(call, session) ==
  IF session = None THEN [call EXCEPT !.pc = "resolved"]
  ELSE [call EXCEPT !.session = session, !.pc = "raised",
                    !.exc = getattr_raises("update_stats")]

\* sync_session (controllers.py:276) after get_session returned: with no
\* session, SessionId(session_id) raises ValueError for a blank id and
\* Session(..., title=...) raises TypeError otherwise (line 287); with one,
\* session.title raises (line 289).  It ends before it reads the payload.
sync_session_rest(call, session) ==
  [call EXCEPT !.session = session, !.pc = "raised",
               !.exc = IF session # None THEN getattr_raises("title")
                       ELSE IF IsBlankId(call.sid) THEN "ValueError"
                       ELSE "TypeError"]

\* ExportSessionUseCase.execute after get_session returned: with no session
\* it goes on to save the one it has; with one, session.stats raises after
\* the export (export_use_case.py:80).
export_rest(call, session) ==
  IF session = None THEN [call EXCEPT !.pc = "resolved"]
  ELSE [call EXCEPT !.session = session, !.pc = "raised",
                    !.exc = getattr_raises("stats")]

\* What a call goes on with when its get_session has returned.
AfterGet(call, session) ==
  CASE call.fn = "get_session_stats" -> get_session_stats_rest(call, session)
    [] call.fn = "update_session_stats" -> update_session_stats_rest(call, session)
    [] call.fn = "sync_session" -> sync_session_rest(call, session)
    [] call.fn = "export" -> export_rest(call, session)

\* get_session(call.sid) of a call up to the expiry check: find_by_id under
\* the lock, then session.is_expired(...).  An expired session is to be
\* deleted next.
get_session_begin(call, keys, heap, t) ==
  LET session == IF IsBlankId(call.sid) THEN None ELSE find_by_id(keys, call.sid)
      expired == IF session = None THEN FALSE
                 ELSE is_expired(heap[session], SessionTimeout, t)
  IN  IF expired THEN [call EXCEPT !.pc = "delete", !.expired = <<call.sid>>]
      ELSE AfterGet(call, session)

\* A pooled thread takes the call fn(sid) and runs it into get_session.
StoreCallStart(w, call) ==
  /\ job[w] = NoJob
  /\ FirstIdle(w)
  /\ job' = [job EXCEPT ![w] = get_session_begin(call, store, sessions, now)]
  /\ job' # job
  /\ UNCHANGED <<registry, ctxvar, thread_local, turn, queue, agent, sessions,
                 store, now, ticks, resp>>

\* SessionManagementUseCase.get_session_stats(session_id), the use case of
\* GET /sessions/{session_id}/stats
GetSessionStats(w, sid) == StoreCallStart(w, StoreCall("get_session_stats", sid))

\* SessionManagementUseCase.update_session_stats(session_id, request), the
\* use case of POST /sessions/{session_id}/stats
UpdateSessionStats(w, sid) == StoreCallStart(w, StoreCall("update_session_stats", sid))

\* sync_session(session_id, request) of controllers.py:276.  (The path
\* POST /sessions/{session_id}/sync is registered twice; a request to it is
\* answered by the function registered first, controllers.py:206-208, which
\* prints the payload and touches neither the store nor a session.)
SyncSession(w, sid) == StoreCallStart(w, StoreCall("sync_session", sid))

\* POST /sessions/cleanup: expired_sessions =
\* self._repository.find_expired_sessions(timeout_seconds)
Cleanup(w) ==
  /\ job[w] = NoJob
  /\ FirstIdle(w)
  /\ find_expired_sessions(store, sessions, CleanupTimeout, now) # <<>>
  /\ job' = [job EXCEPT ![w] =
       [StoreCall("cleanup", None) EXCEPT
          !.pc = "delete",
          !.expired = find_expired_sessions(store, sessions, CleanupTimeout, now)]]
  /\ UNCHANGED <<registry, ctxvar, thread_local, turn, queue, agent, sessions,
                 store, now, ticks, resp>>

\* The next delete of a call: self._repository.delete(session_id) for the
\* ids found, one acquisition of the lock each (cleanup_expired_sessions),
\* self._repository.delete(sid) (get_session, which then returns None).
StoreDelete(w) ==
  /\ job[w].pc = "delete"
  /\ store' = delete(store, Head(job[w].expired))
  /\ LET rest == Tail(job[w].expired)
     IN  job' = [job EXCEPT ![w] =
           IF rest # <<>> THEN [job[w] EXCEPT !.expired = rest]
           ELSE IF job[w].fn = "cleanup" THEN NoJob
           ELSE AfterGet([job[w] EXCEPT !.expired = <<>>], None)]
  /\ UNCHANGED <<registry, ctxvar, thread_local, turn, queue, agent, sessions,
                 now, ticks, resp>>

\* update_session_stats with no session: create_session() (use_cases.py:162)
\* up to the Session it constructs; the save is next.
UpdateSessionStatsCreate(w) ==
  /\ job[w].fn = "update_session_stats"
  /\ job[w].pc = "resolved"
  /\ Cardinality(DOMAIN sessions) < MaxSessions
  /\ LET made == create_session(sessions, now)
     IN  /\ sessions' = made.heap
         /\ job' = [job EXCEPT ![w].pc = "save", ![w].session = made.session]
  /\ UNCHANGED <<registry, ctxvar, thread_local, turn, queue, agent,
                 store, now, ticks, resp>>

\* The exception leaves the call (the controller answers with an error) and
\* the thread goes back to the pool.
CallRaised(w) ==
  /\ job[w].pc = "raised"
  /\ job' = [job EXCEPT ![w] = NoJob]
  /\ UNCHANGED <<registry, ctxvar, thread_local, turn, queue, agent, sessions,
                 store, now, ticks, resp>>

\* ------------------------------------------------- the session store alone
\* how far the clock advances in one step of the store's specification
ClockSteps == {1, SessionTimeout}

MaxStoreTicks == 2

\* The sessions after which POST /sessions is not called any more beside the
\* turn, which creates its own.
MaxStoreSessions == 1

StoreTick(d) ==
  /\ ticks < MaxStoreTicks
  /\ now + d <= MaxClock
  /\ now' = now + d
  /\ ticks' = ticks + 1
  /\ UNCHANGED <<registry, ctxvar, thread_local, turn, queue, job, agent,
                 sessions, store, resp>>

\* The calls of the store that pooled threads make, beside one turn whose
\* agent runs in the task.
NextStore ==
  \/ \E w \in PoolThreads : CreateSession(w, MaxStoreSessions)
  \/ \E w \in PoolThreads : SaveCreated(w)
  \/ \E w \in PoolThreads, sid \in SessionIdInputs(sessions) : GetSessionStats(w, sid)
  \/ \E w \in PoolThreads : Cleanup(w)
  \/ \E w \in PoolThreads : StoreDelete(w)
  \/ \E w \in PoolThreads : CallRaised(w)
  \/ \E sid \in SessionIdInputs(sessions) :
       ExecuteGet("A", "q", sid, None, "coro", "none")
  \/ ExecuteEvict("A")
  \/ ExecuteCreate("A", "none")
  \/ ExecuteSave("A")
  \/ ExecuteStart("A")
  \/ CoroFinish("A", Outcome("return", "ok"), TRUE, FALSE)
  \/ \E d \in ClockSteps : StoreTick(d)

SpecStore == InitWith(EmptyDict) /\ [][NextStore]_vars

\* --------------------------------------------------- the stats of a session
MaxSyncTicks == 1

SyncTick(d) ==
  /\ ticks < MaxSyncTicks
  /\ now' = now + d
  /\ ticks' = ticks + 1
  /\ UNCHANGED <<registry, ctxvar, thread_local, turn, queue, job, agent,
                 sessions, store, resp>>

\* The stats updates and the syncs that clients send.
NextSync ==
  \/ \E w \in PoolThreads : CreateSession(w, MaxSessions)
  \/ \E w \in PoolThreads : SaveCreated(w)
  \/ \E w \in PoolThreads, sid \in SessionIdInputs(sessions) : SyncSession(w, sid)
  \/ \E w \in PoolThreads, sid \in SessionIdInputs(sessions) : UpdateSessionStats(w, sid)
  \/ \E w \in PoolThreads : UpdateSessionStatsCreate(w)
  \/ \E w \in PoolThreads : StoreDelete(w)
  \/ \E w \in PoolThreads : CallRaised(w)
  \/ SyncTick(SessionTimeout + 1)

SpecSync == InitWith(EmptyDict) /\ [][NextSync]_vars

\* ------------------------------------------- the results of one session
\* How many results the callers add to a session.
MaxAdds == 7

\* The row counts of the results added.
RowCounts == {0, 2}

\* the number of results added to the session so far: results carry the
\* time stamps 1, 2, ... in the order in which they are added
Added(session) ==
  IF session.query_results = <<>> THEN 0
  ELSE session.query_results[Len(session.query_results)].timestamp

\* session.add_query_result(QueryResult(...)) by a caller that holds the
\* session
AddQueryResult(sid, rc) ==
  /\ sid \in DOMAIN sessions
  /\ Added(sessions[sid]) < MaxAdds
  /\ LET query_result ==
           QueryResult("SELECT " \o ToStr(rc), rc, <<"c">>, Added(sessions[sid]) + 1)
     IN  sessions' = [sessions EXCEPT
                        ![sid] = add_query_result(@, query_result, now)]
  /\ UNCHANGED <<registry, ctxvar, thread_local, turn, queue, job, agent,
                 store, now, ticks, resp>>

\* The queries handed to the enhancer.
EnhanceQueries == { "q", "dessas", "q DESSAS", "ÚLTIMOS 5" }

\* enhanced_query = self._context_enhancer.enhance_query(query, session) of
\* QueryProcessorService.process_query, on its own
EnhanceQuery(t, q, sid) ==
  /\ turn[t].pc = "idle"
  /\ sid \in DOMAIN sessions
  /\ LET out == enhance_query(q, sessions[sid])
     IN  /\ turn' = [turn EXCEPT ![t].query = q, ![t].session = sid,
                                 ![t].enhanced = out.text]
         /\ sessions' = [sessions EXCEPT ![sid] = out.session]
  /\ UNCHANGED <<registry, ctxvar, thread_local, queue, job, agent,
                 store, now, ticks, resp>>

NextResults ==
  \/ \E rc \in RowCounts : AddQueryResult("s1", rc)
  \/ \E q \in EnhanceQueries : EnhanceQuery("A", q, "s1")

SpecResults == InitWith([x \in {"s1"} |-> EarlierSession]) /\ [][NextResults]_vars

\* ------------------------------------------------- the export of a session
\* The session_payload of POST /sessions/{session_id}/export: its id (""
\* when absent), createdAt and updatedAt (absent: the empty sequence) and its
\* messages.
Payload(id, createdAt, updatedAt, messages) ==
  [id |-> id, createdAt |-> createdAt, updatedAt |-> updatedAt,
   messages |-> messages]

\* The times a client writes into createdAt and updatedAt.
PayloadTimes == { <<>>, <<5>> }

\* The messages of a payload.
PayloadMessages == { <<>>, << Message("user", "q") >> }

\* The payloads of the export requests; no payload is the empty sequence.
Payloads ==
  { <<>> } \cup
  { << Payload(id, c, u, m) >> :
      id \in {"", "s1"}, c \in PayloadTimes, u \in PayloadTimes,
      m \in PayloadMessages }

\* session.add_message(msg) for every message of the payload, at time t
RECURSIVE add_messages(_, _, _)
add_messages(session, messages, t) ==
  IF messages = <<>> THEN session
  ELSE add_messages(add_message(session, Head(messages), t), Tail(messages), t)

\* The Session that execute builds from the payload at time t (lines 20-43).
payload_session(payload, t) ==
  LET made == Session(t)
      dated == [made EXCEPT
                  !.created_at = IF payload.createdAt # <<>>
                                 THEN payload.createdAt[1] ELSE @,
                  !.last_activity = IF payload.updatedAt # <<>>
                                    THEN payload.updatedAt[1] ELSE @]
  IN  add_messages(dated, payload.messages, t)

\* ExportSessionUseCase.execute(session_id, format, session_payload) at its
\* entry, at time t: with a payload, the id is the payload's or the path's,
\* SessionId(...) raises ValueError for a blank one, and the Session is built
\* from the payload before the store is asked.
export_begin(session_id, payload, t) ==
  IF payload = <<>> THEN StoreCall("export", session_id)
  ELSE LET sid == IF payload[1].id # "" THEN payload[1].id ELSE session_id
       IN  IF IsBlankId(sid)
           THEN [StoreCall("export", sid) EXCEPT !.pc = "raised", !.exc = "ValueError"]
           ELSE [StoreCall("export", sid) EXCEPT
                   !.held = << payload_session(payload[1], t) >>]

\* POST /sessions/{session_id}/export: without a payload into get_session
\* (line 54); with one, the Session is built and get_session (line 46) is
\* next.
ExportSession(w, session_id, payload) ==
  /\ job[w] = NoJob
  /\ FirstIdle(w)
  /\ LET call == export_begin(session_id, payload, now)
     IN  job' = [job EXCEPT ![w] =
                   IF call.pc = "raised" THEN call
                   ELSE IF payload = <<>>
                   THEN get_session_begin(call, store, sessions, now)
                   ELSE [call EXCEPT !.pc = "get"]]
  /\ UNCHANGED <<registry, ctxvar, thread_local, turn, queue, agent, sessions,
                 store, now, ticks, resp>>

\* existing = self._session_service.get_session(sid.value) of an export that
\* has built its Session from the payload (line 46)
ExportGet(w) ==
  /\ job[w].pc = "get"
  /\ job' = [job EXCEPT ![w] = get_session_begin(job[w], store, sessions, now)]
  /\ UNCHANGED <<registry, ctxvar, thread_local, turn, queue, agent, sessions,
                 store, now, ticks, resp>>

\* The export without a payload when the store has no session of the id:
\* sid = SessionId(session_id) (ValueError for a blank id) and
\* session = Session(sid), which reads the clock (lines 56-58).
ExportBuild(w) ==
  /\ job[w].fn = "export"
  /\ job[w].pc = "resolved"
  /\ job[w].held = <<>>
  /\ job' = [job EXCEPT ![w] =
       IF IsBlankId(job[w].sid)
       THEN [job[w] EXCEPT !.pc = "raised", !.exc = "ValueError"]
       ELSE [job[w] EXCEPT !.held = << Session(now) >>]]
  /\ UNCHANGED <<registry, ctxvar, thread_local, turn, queue, agent, sessions,
                 store, now, ticks, resp>>

\* The export when the store has no session of the id:
\* self._session_service.save_session(session) for the Session the call
\* built, from the payload or without one (lines 49, 60), under the
\* repository's lock; session.stats then raises after the export (line 80),
\* before the save of line 84.
ExportSave(w) ==
  /\ job[w].fn = "export"
  /\ job[w].pc = "resolved"
  /\ job[w].held # <<>>
  /\ sessions' = DictPut(sessions, job[w].sid, job[w].held[1])
  /\ store' = save(store, job[w].sid)
  /\ job' = [job EXCEPT ![w].pc = "raised", ![w].held = <<>>,
                        ![w].exc = getattr_raises("stats")]
  /\ UNCHANGED <<registry, ctxvar, thread_local, turn, queue, agent,
                 now, ticks, resp>>

MaxExportTicks == 1

ExportTick(d) ==
  /\ ticks < MaxExportTicks
  /\ now' = now + d
  /\ ticks' = ticks + 1
  /\ UNCHANGED <<registry, ctxvar, thread_local, turn, queue, job, agent,
                 sessions, store, resp>>

\* The exports that clients ask for.
NextExport ==
  \/ \E w \in PoolThreads, sid \in {"s1", " \t"}, p \in Payloads :
       ExportSession(w, sid, p)
  \/ \E w \in PoolThreads : StoreDelete(w)
  \/ \E w \in PoolThreads : ExportGet(w)
  \/ \E w \in PoolThreads : ExportBuild(w)
  \/ \E w \in PoolThreads : ExportSave(w)
  \/ \E w \in PoolThreads : CallRaised(w)
  \/ ExportTick(SessionTimeout + 1)

SpecExport == InitWith(EmptyDict) /\ [][NextExport]_vars

\* ================================================================= claims
\* the record a turn binds: (session, request_id_local)
TurnRecord(t) == Rec(turn[t].session, turn[t].request_id)

\* the turn has left QueryProcessorService.process_query
LeftProcessQuery(t) ==
  turn[t].pc = "done" /\ turn[t].exit \in {"return", "raise", "cancelled"}

\* execute has added the user message of turn t to its session
Started(t) ==
  turn[t].pc \notin {"idle", "evicting", "resolved", "built", "created"}

\* process_query of turn t registers the turn's task in this step
Registers(t) ==
  /\ turn[t].pc \in {"resolved", "created"}
  /\ turn'[t].pc \in {"in_agent", "await_thread"}
  /\ turn'[t].kind \in {"coro", "lazy"}

\* a checkpoint of the tool of turn t is executed in this step
CheckpointStep(t) ==
  /\ agent[t].pc \in {"start", "fetched", "after_tool"}
  /\ agent'[t].pc \in {"fetched", "after_tool"}
  /\ [agent'[t] EXCEPT !.timed_out = agent[t].timed_out] # agent[t]
  /\ agent'[t].name # "csv"

\* C1 (as claimed): when set_cancel(R) has set the latch while the turn
\* tagged R is in flight, the next checkpoint executed for that turn observes
\* cancelled: the tool returns the cancelled sentinel and performs none of
\* the steps after the checkpoint (no query executed, no file written).
C1_CheckpointObservesLatch ==
  [][\A t \in Turns :
       (InFlight(t) /\ turn[t].latched /\ CheckpointStep(t))
       => /\ agent'[t].tool = CancelledSentinel
          /\ agent'[t].sql_executed = agent[t].sql_executed
          /\ agent'[t].file_written = agent[t].file_written]_vars

\* What get_current() returns where code of turn t calls it: in the task
\* (an agent that runs as a coroutine), in the pooled thread that runs the
\* turn's call, and in the thread of the agent's executor.
Views(t) ==
  {get_current(ctxvar[t], thread_local[LoopThread]) : x \in {t} \cap
      {u \in Turns : turn[u].kind = "coro" /\ InFlight(u)}}
  \cup {get_current(job[w].ctx, thread_local[w]) :
          w \in {v \in PoolThreads : job[v].turn = t}}
  \cup {get_current(Unbound, thread_local[ExecThread(t)]) : x \in {t} \cap
      {u \in Turns : agent[u].pc # "none" /\ turn[u].kind # "coro"}}

\* the domain record that the dispatch mode of turn t binds
Binding(t) ==
  IF turn[t].kind = "sync" THEN thread_local[LoopThread] ELSE ctxvar[t]

HoldsBinding(t) == InFlight(t) /\ Binding(t) = TurnRecord(t)

\* C2 (as claimed): for two turns in flight together, whatever dispatch mode
\* each uses, get_current() called for one never returns the record bound by
\* the other, and one turn finishing and undoing its binding never removes
\* or changes the binding of the other.
C2_TurnsIsolated ==
  /\ [](\A a \in Turns : \A b \in Turns \ {a} :
          (InFlight(a) /\ InFlight(b))
          => \A v \in Views(a) :
               v = TurnRecord(b) => TurnRecord(a) = TurnRecord(b))
  /\ [][\A a \in Turns : \A b \in Turns \ {a} :
          (HoldsBinding(a) /\ InFlight(b) /\ turn'[b].pc = "done"
             /\ turn'[a].pc = turn[a].pc)
          => HoldsBinding(a)']_vars

\* C3 (as claimed): on every exit path of process_query the cooperative
\* record is back at the value it had before the call and the thread-local
\* of every worker thread that was bound for the turn is cleared, so that a
\* pooled thread never shows the finished turn's record.
C3_ClearedAtExit ==
  \A t \in Turns :
    LeftProcessQuery(t)
    => /\ ctxvar[t] = turn[t].tokens
       /\ \A w \in PoolThreads :
            (job[w].turn = t /\ job[w].bound) => thread_local[w] = Unbound

\* C3 (amended): the context is bound before the call is handed to a
\* thread; on every exit path of process_query the cooperative record is back
\* at the value it had before the call, and the thread-local that
\* process_query bound on its own thread (the loop's) is cleared, so it holds
\* only the record of a turn in flight that bound it; the thread-local of a
\* pooled worker thread bound for a turn is cleared when that worker's call
\* returns (after the turn has ended, when the task was cancelled), so a
\* pooled thread that is idle holds no record and one that runs a call sees
\* none but the record of the turn it runs the call for.
C3_ContextUndone ==
  /\ \A t \in Turns : LeftProcessQuery(t) => ctxvar[t] = turn[t].tokens
  /\ \A c \in queue : c.fn = "adapter" => c.ctx = TurnRecord(c.turn)
  /\ \A w \in PoolThreads :
       /\ job[w] = NoJob => thread_local[w] = Unbound
       /\ job[w].fn = "adapter"
            => /\ job[w].ctx = TurnRecord(job[w].turn)
               /\ thread_local[w] = TurnRecord(job[w].turn)
       /\ job[w] # NoJob
            => get_current(job[w].ctx, thread_local[w])
                 \in {Unbound, TurnRecord(job[w].turn)}
  /\ thread_local[LoopThread] # Unbound
       => \E t \in Turns : /\ InFlight(t) /\ turn[t].kind = "sync"
                           /\ thread_local[LoopThread] = TurnRecord(t)

\* C3 witness: turn A ended by cancellation, its worker's call returned
\* later, and the same pooled thread now runs the call of turn B, bound to B.
C3_Witness ==
  /\ turn["A"].kind = "lazy" /\ turn["A"].exit = "cancelled"
  /\ agent["A"].pc = "finished"
  /\ job["w1"].turn = "B" /\ job["w1"].bound
  /\ thread_local["w1"] = TurnRecord("B")
  /\ job["w2"] = NoJob

\* every context in which get_current() can be called
Contexts == {ctxvar[t] : t \in Turns} \cup {job[w].ctx : w \in PoolThreads} \cup {Unbound}

\* C4: get_current() returns the cooperative-domain record whenever one is
\* bound, whatever the thread-domain record holds; with no cooperative
\* record it returns the calling thread's record: (s, r) after
\* set_for_thread(s, r) alone, (None, None) when neither is bound.
C4_GetCurrentPrefersContext ==
  \A cv \in Contexts, th \in Threads :
    /\ cv # Unbound => get_current(cv, thread_local[th]) = cv
    /\ cv = Unbound => get_current(cv, thread_local[th]) = thread_local[th]

\* C4 witness: a turn's cooperative record is bound while the thread it runs
\* on carries the thread-local record of another turn.
C4_Witness ==
  /\ InFlight("A") /\ InFlight("B")
  /\ ctxvar["A"] = TurnRecord("A")
  /\ thread_local[LoopThread] = TurnRecord("B")
  /\ TurnRecord("A") # TurnRecord("B")

\* C5: a cancel request that arrives before the registration is not lost:
\* when register_task(R, task) runs on an entry whose latch set_cancel(R) has
\* set, the entry keeps the latch and is_cancelled_current() in the context
\* bound to R is true; the latch of an entry is never taken back.
C5_EarlyCancelKept ==
  [][/\ \A t \in Turns :
          (/\ Registers(t)
           /\ turn'[t].request_id \in DOMAIN registry
           /\ registry[turn'[t].request_id].event)
          => /\ registry'[turn'[t].request_id] = Entry(t, TRUE)
             /\ is_cancelled_current(registry', ctxvar'[t], thread_local'[LoopThread])
     /\ \A r \in DOMAIN registry \cap DOMAIN registry' :
          registry[r].event => registry'[r].event]_vars

\* C5 witness: the tool of a turn returned the sentinel at a checkpoint
\* although no set_cancel ran while the turn was in flight.
C5_Witness ==
  /\ turn["A"].kind = "coro" /\ ~turn["A"].latched
  /\ agent["A"].tool = CancelledSentinel
  /\ registry[turn["A"].request_id] = Entry("A", TRUE)

\* C6: execute hands every exception and every cancellation raised while the
\* turn runs back as a response with success=false and one error kind:
\* CANCELLED without retry hint for a cancellation, QUOTA_ERROR for the quota
\* pattern, MODEL_ERROR for the token-limit pattern, SERVER_ERROR otherwise.
C6_FailuresBecomeResponses ==
  \A t \in Turns :
    (turn[t].pc = "done" /\ turn[t].raised # Pending)
    => /\ resp[t] # Propagated
       /\ resp[t].success = FALSE
       /\ resp[t].error_type =
            IF turn[t].raised.kind = "cancelled" THEN "CANCELLED"
            ELSE IF IsQuotaMessage(turn[t].raised.text) THEN "QUOTA_ERROR"
            ELSE IF IsTokenLimitMessage(turn[t].raised.text) THEN "MODEL_ERROR"
            ELSE "SERVER_ERROR"
       /\ turn[t].raised.kind = "cancelled" => resp[t].retry_after = <<>>

\* C6 witness: a turn whose task was cancelled has answered CANCELLED.
C6_Witness ==
  /\ turn["A"].pc = "done" /\ turn["A"].raised.kind = "cancelled"
  /\ resp["A"] = CancelledResponse

\* C7 (as claimed): a turn whose agent call did not finish within the
\* timeout fails with a Timeout kind distinct from QUOTA_ERROR, MODEL_ERROR
\* and SERVER_ERROR.
C7_TimeoutKind ==
  \A t \in Turns :
    (/\ turn[t].pc = "done" /\ agent[t].timed_out
     /\ turn[t].raised = Outcome("raise", TimeoutMessage))
    => /\ resp[t].success = FALSE
       /\ resp[t].error_type \notin {None, "QUOTA_ERROR", "MODEL_ERROR", "SERVER_ERROR"}

\* C8: when a turn with request id R leaves process_query (by a reply, by a
\* failure of the agent or by cancellation) the registry has no entry for R;
\* an entry that carries a task belongs to a turn in flight, so the entries
\* made for turns do not pile up.
C8_UnregisteredAtExit ==
  /\ [](\A r \in DOMAIN registry :
          registry[r].task # None
          => InFlight(registry[r].task) /\ turn[registry[r].task].request_id = r)
  /\ [][\A t \in Turns :
          (InFlight(t) /\ turn'[t].pc = "done")
          => turn[t].request_id \notin DOMAIN registry']_vars

\* C8 witness: a turn that was cancelled through its request id has ended
\* and the registry holds no entry for the id.
C8_Witness ==
  /\ turn["A"].pc = "done" /\ turn["A"].exit = "cancelled"
  /\ turn["A"].latched
  /\ turn["A"].request_id \notin DOMAIN registry

\* C9: set_cancel(R) never raises, and a second call leaves the registry as
\* the first call left it, in every state of the registry: R registered,
\* R unregistered after its turn, R never seen.
C9_SetCancelIdempotent ==
  \A r \in RequestIds, x \in BOOLEAN, y \in BOOLEAN :
    LET once == set_cancel(registry, r, x)
        twice == set_cancel(once.registry, r, y)
    IN  /\ ~once.raised /\ ~twice.raised
        /\ twice.registry = once.registry
        /\ r \in DOMAIN once.registry /\ once.registry[r].event

\* C9 witness: set_cancel ran for the request id of a turn that had already
\* ended and been unregistered.
C9_Witness ==
  /\ turn["A"].pc = "done" /\ turn["A"].exit = "return"
  /\ turn["A"].request_id \in DOMAIN registry
  /\ registry[turn["A"].request_id] = Entry(None, TRUE)

\* C10 (as claimed): a turn whose query is empty or whitespace-only answers
\* success=false with error_code VALIDATION.
C10_EmptyQueryValidation ==
  \A t \in Turns :
    turn[t].exit = "validation"
    => resp[t].success = FALSE /\ resp[t].error_code = "VALIDATION"

\* C11: a turn with a non-empty query whose session id the store does not
\* hold (execute creates the session) and whose agent call and save succeed
\* answers success=true, context_used=true and the id of the created session,
\* under which the store holds a session with exactly two messages: the user
\* message with the query, then the assistant message with the reply.
C11_NewSessionTurn ==
  \A t \in Turns :
    (/\ turn[t].pc = "done" /\ turn[t].exit = "return"
     /\ turn[t].raised = Pending /\ turn[t].created)
    => /\ resp[t].success /\ resp[t].context_used
       /\ resp[t].session_id = turn[t].session
       /\ resp[t].session_id \in Stored(store)
       /\ Len(resp[t].data) = 1
       /\ sessions[resp[t].session_id].messages =
            << Message("user", turn[t].query),
               Message("assistant", resp[t].data[1]) >>

\* C11 witness: such a turn has answered with the agent's reply while the
\* store also holds an earlier session.
C11_Witness ==
  /\ turn["A"].pc = "done" /\ turn["A"].exit = "return"
  /\ turn["A"].raised = Pending /\ turn["A"].created
  /\ resp["A"].data = <<"ok">>
  /\ turn["A"].session = "s2" /\ store = <<"s1", "s2">>

\* the quota pattern: "429" together with a quota or rate-limit marker
QuotaPattern(msg) ==
  /\ Contains(msg, "429")
  /\ \E marker \in {"quota", "Quota", "QuOtA", "RESOURCE_EXHAUSTED",
                     "Too Many Requests"} : Contains(msg, marker)

\* the largest hint a message of the model gives
MaxHint == 999

\* The numbers N that each message gives as "retry in N": the decimal
\* numeral of N follows "retry in " and no digit follows the numeral.
RetryHintsOf ==
  [ msg \in ErrorMessages |->
      LET str == msg \o " "
      IN  { n \in 0..MaxHint :
              \E p \in 1..Len(str) :
                LET q == p + 9 + Len(ToString(n))
                IN  /\ q <= Len(str)
                    /\ SubSeq(str, p, q - 1) = "retry in " \o ToString(n)
                    /\ SubSeq(str, q, q)
                         \notin {"0", "1", "2", "3", "4", "5", "6", "7", "8", "9"} } ]

RetryHints(msg) == RetryHintsOf[msg]

\* C12: when the turn fails with a message that matches the quota pattern,
\* the response has kind QUOTA_ERROR and its retry hint is the N of
\* "retry in N" when the message has that text and 30 when it has not; a
\* response of any other kind carries no retry hint.
C12_QuotaRetryHint ==
  \A t \in Turns :
    turn[t].pc = "done"
    => /\ (turn[t].raised.kind = "raise" /\ QuotaPattern(turn[t].raised.text))
          => /\ resp[t].error_type = "QUOTA_ERROR"
             /\ Len(resp[t].retry_after) = 1
             /\ IF RetryHints(turn[t].raised.text) # {}
                THEN resp[t].retry_after[1] \in RetryHints(turn[t].raised.text)
                ELSE resp[t].retry_after[1] = 30
       /\ resp[t].error_type # "QUOTA_ERROR" => resp[t].retry_after = <<>>

\* C12 witness: the agent failed with "429 ... Quota ... retry in 45" and
\* the response says QUOTA_ERROR, retry after 45.
C12_Witness ==
  /\ turn["A"].pc = "done"
  /\ turn["A"].raised = Outcome("raise", "429 Quota retry in 45")
  /\ RetryHints(turn["A"].raised.text) = {45}
  /\ resp["A"].error_type = "QUOTA_ERROR" /\ resp["A"].retry_after = <<45>>

\* C13 (as claimed): when save_session raises after the agent call of the
\* turn has returned its reply, execute still answers with the success
\* response that carries the reply.
C13_ReplyDespiteSaveFailure ==
  \A t \in Turns :
    (turn[t].pc = "done" /\ turn[t].exit = "return" /\ turn[t].raised = StoreError)
    => /\ resp[t].success
       /\ \E exists \in BOOLEAN :
            resp[t].data =
              << IF turn[t].kind = "coro"
                 THEN coro_process_query_result(agent[t].outcome, exists).text
                 ELSE turn[t].awaited.text >>

\* C14 (as claimed): every response of a turn that got as far as resolving
\* or creating its session carries that session's id, the failure responses
\* (cancelled, quota, model, server error) as well as the success response.
C14_SessionIdOnEveryResponse ==
  \A t \in Turns :
    (turn[t].pc = "done" /\ turn[t].session # None)
    => resp[t].session_id = turn[t].session

\* C15: a session of the store with now - last_activity > timeout is absent
\* for get_session (it returns None and the session leaves the store) and is
\* in find_expired_sessions(timeout); one with now - last_activity <= timeout
\* is returned by get_session, stays in the store and is not listed.
C15_ExpiryBoundary ==
  \A sid \in Stored(store) :
    LET got == get_session(store, sessions, sid, now)
        listed == find_expired_sessions(store, sessions, SessionTimeout, now)
    IN  IF now - sessions[sid].last_activity > SessionTimeout
        THEN /\ got.session = None /\ sid \notin Stored(got.keys)
             /\ sid \in Stored(listed)
        ELSE /\ got.session = sid /\ got.keys = store
             /\ sid \notin Stored(listed)

\* C15 witness: the store holds a session idle for timeout + 1 seconds and
\* one idle for exactly the timeout.
C15_Witness ==
  /\ store = <<"s1", "s2">>
  /\ now - sessions["s1"].last_activity = SessionTimeout + 1
  /\ now - sessions["s2"].last_activity = SessionTimeout

\* create_session has constructed the session and has not yet saved it
InCreate(sid) ==
  \/ \E w \in PoolThreads : job[w].pc = "save" /\ job[w].session = sid
  \/ \E t \in Turns : turn[t].pc = "built" /\ turn[t].session = sid

\* C16: get_session with the id of a session that create_session returned
\* (and saved), as long as the session has not expired, returns the session
\* with that id, and its message history is empty.
C16_GetAfterCreate ==
  /\ [][\A sid \in DOMAIN sessions' :
          (/\ InCreate(sid) /\ ~InCreate(sid)'
           /\ ~(now' - sessions'[sid].last_activity > SessionTimeout))
          => /\ get_session(store', sessions', sid, now').session = sid
             /\ sessions'[sid].messages = <<>>]_vars
  /\ [](\A sid \in DOMAIN sessions :
          (/\ ~InCreate(sid)
           /\ sessions[sid] = Session(sessions[sid].created_at)
           /\ ~(now - sessions[sid].last_activity > SessionTimeout))
          => /\ get_session(store, sessions, sid, now).session = sid
             /\ sessions[get_session(store, sessions, sid, now).session].messages = <<>>)

\* C16 witness: two sessions constructed at time 0 and saved in the other
\* order; a full timeout after their construction both are still in the
\* store, untouched.
C16_Witness ==
  /\ store = <<"s2", "s1">>
  /\ sessions["s1"] = Session(0) /\ sessions["s2"] = Session(0)
  /\ \A sid \in {"s1", "s2"} : ~InCreate(sid)
  /\ now = SessionTimeout

\* C17: add_query_result with row_count = 0 leaves active_dataset as it was
\* and with row_count > 0 makes the added result the active_dataset; so
\* active_dataset is the most recently added result with rows (absent when
\* there has been none), also after that result left recent_query_results.
C17_ActiveDataset ==
  /\ [][\A sid \in DOMAIN sessions :
          Added(sessions'[sid]) = Added(sessions[sid]) + 1
          => LET results == sessions'[sid].query_results
                 newest == results[Len(results)]
             IN  /\ newest.row_count = 0
                      => sessions'[sid].active_dataset = sessions[sid].active_dataset
                 /\ newest.row_count > 0
                      => sessions'[sid].active_dataset = <<newest>>]_vars
  /\ [](\A sid \in DOMAIN sessions :
          LET results == sessions[sid].query_results
              active == sessions[sid].active_dataset
          IN  IF active = <<>>
              THEN \A i \in DOMAIN results : results[i].row_count = 0
              ELSE /\ active[1].row_count > 0
                   /\ \A i \in DOMAIN results :
                        results[i].row_count > 0
                        => results[i].timestamp <= active[1].timestamp)

\* C17 witness: the active dataset has been evicted from the recent results,
\* all of which are empty.
C17_Witness ==
  LET results == sessions["s1"].query_results
      active == sessions["s1"].active_dataset
  IN  /\ active # <<>> /\ Len(results) = MaxRecentResults
      /\ \A i \in DOMAIN results :
           results[i].row_count = 0 /\ results[i].timestamp > active[1].timestamp

\* C18: recent_query_results never holds more than 5 results, and they are
\* the results added last, in the order in which they were added.
C18_RecentResults ==
  \A sid \in DOMAIN sessions :
    LET results == sessions[sid].query_results
        n == Added(sessions[sid])
    IN  /\ Len(results) <= 5
        /\ Len(results) = (IF n < 5 THEN n ELSE 5)
        /\ \A i \in DOMAIN results : results[i].timestamp = n - Len(results) + i

\* C18 witness: seven results were added and the list holds the third to
\* the seventh.
C18_Witness ==
  LET results == sessions["s1"].query_results
  IN  Len(results) = 5 /\ results[1].timestamp = 3 /\ results[5].timestamp = 7

\* C19: enhance_query(query, session) returns the query as it is whenever
\* needs_context(query) is false or the session has no active_dataset, and
\* whatever it returns it leaves the session as it was.
C19_EnhanceNoOp ==
  \A q \in EnhanceQueries, sid \in DOMAIN sessions :
    LET out == enhance_query(q, sessions[sid])
    IN  /\ (~needs_context(q) \/ sessions[sid].active_dataset = <<>>)
             => out.text = q
        /\ out.session = sessions[sid]

\* C19 witness: a query with a contextual keyword was handed to the enhancer
\* for a session that has results but no active dataset, and came back as
\* it was.
C19_Witness ==
  /\ turn["A"].query = "q DESSAS"
  /\ turn["A"].enhanced = turn["A"].query
  /\ sessions["s1"].active_dataset = <<>>
  /\ Added(sessions["s1"]) > 0

\* C20 (as claimed): a stats sync with incoming count c on a session that
\* the store returns, whose count is q, leaves the count at max(q, c): the
\* sync of such a session, and the stats update of one, end without raising.
C20_QueryCountMerge ==
  \A w \in PoolThreads :
    (job[w].fn \in {"sync_session", "update_session_stats"} /\ job[w].session # None)
    => job[w].exc = None

\* C21 (as claimed): every session of the store has last_activity >=
\* created_at, after its creation, after message appends and after the
\* construction of a session from the payload of an export.
C21_ActivityAfterCreation ==
  \A sid \in Stored(store) :
    sessions[sid].last_activity >= sessions[sid].created_at

\* work started for the turn is still executing: its agent run has begun and
\* has not ended
WorkRunning(t) == agent[t].pc \in {"start", "fetched", "after_tool"}

\* C22 (as claimed): once set_cancel(R) has set the latch during turn R, the
\* latch stays set for as long as work started for the turn executes, and
\* every checkpoint executed afterwards for the turn observes cancelled, also
\* one that a worker thread runs after the task was cancelled and
\* unregister_task has run.
C22_LatchIsTruth ==
  /\ [][\A t \in Turns :
          (turn[t].latched /\ WorkRunning(t))
          => /\ turn[t].request_id \in DOMAIN registry'
             /\ registry'[turn[t].request_id].event]_vars
  /\ [][\A t \in Turns :
          (turn[t].latched /\ CheckpointStep(t))
          => agent'[t].tool = CancelledSentinel]_vars

\* the tool of turn t executes its SELECT statement in this step
SqlStep(t) == ~agent[t].sql_executed /\ agent'[t].sql_executed

\* C23 (as claimed): during a turn get_current() returns the turn's
\* (session, request_id) wherever code of the turn runs: in the task, in the
\* pooled thread of asyncio.to_thread and in the executor's thread that
\* runs the agent's tools; so the database hook adds one to the query_count
\* of the turn's own session for each statement of the tool.
C23_ContextInEveryThread ==
  /\ [](\A t \in Turns :
          InFlight(t)
          => /\ \A v \in Views(t) : v = TurnRecord(t)
             /\ WorkRunning(t) => ToolCurrent(t) = TurnRecord(t))
  /\ [][\A t \in Turns :
          (InFlight(t) /\ SqlStep(t))
          => after_cursor_execute(sessions, ToolCurrent(t), now).counted]_vars

\* C24 (as claimed): register_task(R, task) on an entry whose latch is
\* already set cancels the attached task at registration: cancellation of
\* the task is requested in the step that registers it, so that the turn ends
\* as cancelled instead of running its agent to the first checkpoint.
C24_LateRegistrationCancels ==
  [][\A t \in Turns :
       (/\ Registers(t)
        /\ turn'[t].request_id \in DOMAIN registry
        /\ registry[turn'[t].request_id].event)
       => turn'[t].must_cancel]_vars

\* C25 (as claimed): a session leaves the store, by the eviction of
\* get_session or by cleanup_expired_sessions, only if it is expired at the
\* instant it is removed; a turn that refreshes last_activity and saves the
\* session between the expiry check and the delete keeps its session.
C25_RemovedOnlyIfExpired ==
  [][\A sid \in Stored(store) \ Stored(store') :
       is_expired(sessions[sid], SessionTimeout, now)]_vars

\* the turn has answered with the reply of its agent
Replied(t) ==
  turn[t].pc = "done" /\ turn[t].exit = "return" /\ turn[t].raised = Pending

\* the messages of a turn: the user message with its query, the assistant
\* message with the reply that its response carries
UserMessage(t) == Message("user", turn[t].query)
AssistantMessage(t) == Message("assistant", resp[t].data[1])

\* C26: when the turns of a session are serialized (the second starts after
\* the first has returned) and every agent call succeeds, the history of
\* the session is user_1, assistant_1, user_2, assistant_2 in call order:
\* user_1, assistant_1, user_2 while the second turn is in flight, and all
\* four once it has returned.
C26_SerializedOrder ==
  \A a \in Turns : \A b \in Turns \ {a} :
    (/\ Replied(a) /\ turn[a].created
     /\ turn[b].alone /\ turn[b].session = turn[a].session)
    => /\ InFlight(b)
            => sessions[turn[a].session].messages
                 = << UserMessage(a), AssistantMessage(a), UserMessage(b) >>
       /\ Replied(b)
            => sessions[turn[a].session].messages
                 = << UserMessage(a), AssistantMessage(a),
                      UserMessage(b), AssistantMessage(b) >>

\* C26 witness: two serialized turns on one session have both returned.
C26_Witness ==
  /\ Replied("A") /\ turn["A"].created
  /\ Replied("B") /\ turn["B"].alone /\ turn["B"].session = turn["A"].session
  /\ Len(sessions[turn["A"].session].messages) = 4
  /\ resp["A"].data # resp["B"].data

\* Two turns in flight together on one session have left the history
\* user_1, user_2, assistant_2, assistant_1.
C26_OutOfCallOrder ==
  /\ Replied("A") /\ Replied("B")
  /\ ~turn["B"].alone /\ turn["B"].session = turn["A"].session
  /\ resp["A"].data # resp["B"].data
  /\ sessions[turn["A"].session].messages
       = << UserMessage("A"), UserMessage("B"),
            AssistantMessage("B"), AssistantMessage("A") >>

\* a is a prefix of b
IsPrefix(a, b) == Len(a) <= Len(b) /\ SubSeq(b, 1, Len(a)) = a

\* C27 (as claimed): the history of a session is append-only: for every
\* operation on a session that the store returns (a stats update, a session
\* sync, an export), the history before the operation is a prefix of the
\* history after it.
C27_HistoryAppendOnly ==
  [][\A sid \in Stored(store) \cap Stored(store') :
       get_session(store, sessions, sid, now).session = sid
       => IsPrefix(sessions[sid].messages, sessions'[sid].messages)]_vars

\* the agent call of the turn raised or was cancelled
Failed(t) == turn[t].pc = "done" /\ turn[t].exit \in {"raise", "cancelled"}

\* the user messages of the turns in ts, in the order in which they started
UserMessages(ts) ==
  (IF "A" \in ts THEN << UserMessage("A") >> ELSE <<>>)
    \o (IF "B" \in ts THEN << UserMessage("B") >> ELSE <<>>)

\* C28: a failed turn does not roll the session back.  A session created by
\* execute whose k turns all failed (the agent call raised or was cancelled)
\* holds the k user messages and no assistant message; in every state a
\* session holds one user message for each turn started on it and one
\* assistant message for each turn that replied.
C28_FailedTurnKeepsUserMessage ==
  \A sid \in DOMAIN sessions :
    LET on == {t \in Turns : Started(t) /\ turn[t].session = sid}
        history == sessions[sid].messages
    IN  /\ Cardinality({i \in DOMAIN history : history[i].role = "user"})
             = Cardinality(on)
        /\ Cardinality({i \in DOMAIN history : history[i].role = "assistant"})
             = Cardinality({t \in on : Replied(t)})
        /\ (on # {} /\ \A t \in on : Failed(t)) => history = UserMessages(on)

\* C28 witness: two turns on one session failed, one by an exception of the
\* agent and one by cancellation.
C28_Witness ==
  /\ turn["A"].session = turn["B"].session
  /\ Failed("A") /\ Failed("B") /\ turn["A"].exit # turn["B"].exit
  /\ sessions[turn["A"].session].messages
       = << Message("user", "q"), Message("user", "dessas") >>

\* C29: through the turns active_dataset is never set.  Every result that
\* _try_capture_query_result records has row_count = 0, so a session created
\* by execute has no active_dataset after any of its turns, and enhance_query
\* hands every query of such a session back unchanged, also one with a
\* contextual keyword.
C29_NoActiveDatasetFromTurns ==
  /\ \A sid \in DOMAIN sessions :
       /\ sessions[sid].active_dataset = <<>>
       /\ \A i \in DOMAIN sessions[sid].query_results :
            sessions[sid].query_results[i].row_count = 0
       /\ \A q \in EnhanceQueries : enhance_query(q, sessions[sid]).text = q
  /\ \A t \in Turns :
       (Started(t) /\ turn[t].session # None) => turn[t].enhanced = turn[t].query

\* C29 witness: a turn whose query has a contextual keyword ran on a session
\* for which an earlier reply's query, "Select 1" of "Select 1 limit 5", had
\* been captured.
C29_Witness ==
  /\ Replied("A") /\ resp["A"].data = <<"Select 1 limit 5">>
  /\ turn["B"].alone /\ turn["B"].session = turn["A"].session
  /\ needs_context(turn["B"].query)
  /\ turn["B"].enhanced = turn["B"].query
  /\ Len(sessions[turn["B"].session].query_results) >= 1
  /\ sessions[turn["B"].session].query_results[1].query = "Select 1"

\* no turn with request id r is in flight
NotInFlight(r) == \A t \in Turns : InFlight(t) => turn[t].request_id # r

\* C30 (as claimed): the entry that set_cancel(R) makes while no turn with
\* request id R is in flight keeps its latch set until a turn with that id
\* has run; a later turn that uses R observes cancelled at its first
\* checkpoint, no set_cancel having run during the turn.
C30_StaleLatch ==
  /\ [][\A r \in DOMAIN registry :
          (registry[r].event /\ NotInFlight(r))
          => (r \in DOMAIN registry' /\ registry'[r].event)]_vars
  /\ [][\A t \in Turns :
          (/\ InFlight(t) /\ ~turn[t].latched
           /\ turn[t].request_id \in DOMAIN registry
           /\ registry[turn[t].request_id].event
           /\ agent[t].pc = "start" /\ CheckpointStep(t))
          => agent'[t].tool = CancelledSentinel]_vars

====
